---- MODULE Spec2Model ----
(***************************************************************************)
(* bedrock-notify: the poll coalescer (lib/poll.js), the exchange poller   *)
(* (createExchangePoller) and the push-token gateway, as a state machine.  *)
(*                                                                         *)
(* Time is in milliseconds.  A cache entry carries its age; Advance adds   *)
(* to every age.  JavaScript runs each handler to its next await without   *)
(* interleaving, so every action below is one such run-to-await segment.   *)
(***************************************************************************)
EXTENDS Integers, Sequences, FiniteSets, TLC

\* ------------------------------------------------------------------ bounds
\* number of watched resource ids
NIds == 2
\* number of concurrent poll() callers
NCallers == 2
\* configured caches.poll.max (default 10000, lib/config.js)
PollMax == 1
\* configured caches.pollResult.max (default 100, lib/config.js)
PollResultMax == 1
\* cap on poller invocations (bounds sequence numbers too)
MaxPolls == 3
\* cap on the number of clock advances
MaxAdvances == 1
\* watch records in the store
NWatches == 1
NMany == 11
\* processes running the scheduler against the one store
NSweepers == 2
\* highest sequence a watch record is driven to
MaxSequence == 2
\* cap on the number of lease periods that elapse
MaxTicks == 1

\* --------------------------------------------------------------- constants
\* fifteen minute max TTL for poll results
MAX_TTL == 900000
\* caches.pollResult.ttl: 30 seconds by default
PollResultTtl == 30000
\* default lifetime of a push token
TWENTY_MINUTES == 1200000
\* max clock skew is 5 minutes
MAX_CLOCK_SKEW == 300000
\* watchers.js
ONE_HOUR_IN_SECONDS == 3600
ONE_SECOND == 1000
FIVE_SECONDS == ONE_SECOND * 5
HookRescheduleTime == 50

Ids == 1..NIds
Callers == 1..NCallers
WatchIds == 1..NWatches
ManyIds == 1..NMany
Sweepers == 1..NSweepers
States == {"pending", "complete"}
Filters == {"fresh", "dedup"}
AnyFilters == Filters \cup {"quiet"}
Steps == {PollResultTtl, PollResultTtl + 1, MAX_TTL + 1}

undefined == [kind |-> "undefined"]
null == [kind |-> "null"]

\* ------------------------------------------------------------- lru-cache
\* A cache is a sequence of entries [key, val, ttl, age], least recently
\* used first.  ttl = 0 means the entry never expires.
IsStale(e) == e.ttl > 0 /\ e.age > e.ttl

IndexOf(cache, key) ==
  IF \E i \in 1..Len(cache) : cache[i].key = key
    THEN CHOOSE i \in 1..Len(cache) : cache[i].key = key
    ELSE 0

Without(cache, i) == SubSeq(cache, 1, i - 1) \o SubSeq(cache, i + 1, Len(cache))

\* cache.get(key): a stale entry is deleted and reads as undefined; a live
\* one becomes the most recently used
CacheGet(cache, key) ==
  LET i == IndexOf(cache, key) IN
  IF i = 0 \/ IsStale(cache[i]) THEN undefined ELSE cache[i].val

CacheAfterGet(cache, key) ==
  LET i == IndexOf(cache, key) IN
  IF i = 0 THEN cache
  ELSE IF IsStale(cache[i]) THEN Without(cache, i)
  ELSE Append(Without(cache, i), cache[i])

\* cache.has(key): no recency update, no deletion
CacheHas(cache, key) ==
  LET i == IndexOf(cache, key) IN i # 0 /\ ~IsStale(cache[i])

\* cache.peek(key)
CachePeek(cache, key) ==
  LET i == IndexOf(cache, key) IN
  IF i = 0 \/ IsStale(cache[i]) THEN undefined ELSE cache[i].val

\* cache.set(key, val, {ttl}): replaces in place or evicts the least
\* recently used entry when full
CacheSet(cache, max, key, val, ttl) ==
  LET i == IndexOf(cache, key)
      e == [key |-> key, val |-> val, ttl |-> ttl, age |-> 0]
  IN IF i # 0 THEN Append(Without(cache, i), e)
     ELSE IF Len(cache) >= max THEN Append(Tail(cache), e)
     ELSE Append(cache, e)

CacheDelete(cache, key) ==
  LET i == IndexOf(cache, key) IN IF i = 0 THEN cache ELSE Without(cache, i)

Min(a, b) == IF a < b THEN a ELSE b

\* ages are capped just above the largest TTL: older is equally stale
Aged(cache, dt) ==
  [i \in 1..Len(cache) |->
     [cache[i] EXCEPT !.age = Min(cache[i].age + dt, MAX_TTL + 1)]]

\* -------------------------------------------------------------- variables
VARIABLES
  origin,             \* id -> state of the exchange at the origin server
  POLL_CACHE,         \* in-flight cache: id -> promise of the running fetch
  POLL_RESULT_CACHE,  \* result cache: id -> PollResult
  fetch,              \* per caller: the _getUncachedPollResult run it started
  caller,             \* per caller: its pending poll() call
  ret,                \* the poll() call that returned last, with its outcome
  polls,              \* number of poller invocations so far
  advances,           \* number of clock advances so far
  now,                \* Date.now(), in milliseconds since start
  tokenCall,          \* the application's createPushToken call and its outcome
  callback,           \* id -> variables.callback of the exchange at the origin
  verifyCall,         \* the last verifyPushToken call and its outcome
  request,            \* the POST to /callbacks/:pushToken being served
  response,           \* the status the push route answered the last POST with
  keyLoad,            \* push.hmacKey of the configuration, the module's
                      \* HMAC_KEY and what _loadHmacKey did at bedrock.init
  collection,         \* the notify-watch collection: id -> record, if any
  sweep,              \* per loop: where this _runWatchers loop stands
  watchCall,          \* the last call of the watch API and its outcome
  process,            \* per loop: the process it runs in
  TEST_RESCHEDULE_TIME_HOOK,  \* per process: the hook, if one is set
  runWatchersTimerId, \* per process: the loop whose pending timer
                      \* _runWatchersTimerId names (null when that timer
                      \* has fired or was cleared: clearing it does nothing)
  exiting,            \* per process: whether it has been told to shut down
  detached            \* watcher calls whose sweep has gone on without them

pollVars == <<origin, POLL_CACHE, POLL_RESULT_CACHE, fetch, caller, ret,
              polls, advances, now>>

pushVars ==
  <<tokenCall, verifyCall, callback, request, response, keyLoad>>

schedVars ==
  <<process, TEST_RESCHEDULE_TIME_HOOK, runWatchersTimerId, exiting,
    detached>>

watchVars == <<collection, sweep, watchCall, schedVars>>

vars == <<pollVars, pushVars, watchVars>>

NoFetch == [st |-> "none"]
Idle == [st |-> "idle"]
NoCall == [kind |-> "none"]
NoRequest == [st |-> "none"]
NoResponse == [status |-> 0]
Scheduled(delay) == [st |-> "scheduled", delay |-> delay]

\* ------------------------------------------------------- HMAC key loading
Error(name) == [kind |-> "error", name |-> name]
\* a JavaScript string value
Str(text) == [kind |-> "string", of |-> text]
IsString(x) == x.kind = "string"
Base64Url(bytes) == [kind |-> "base64url", of |-> bytes]

\* the one supported multikey type: its two header bytes and its key size
SUPPORTED_KEY_TYPES ==
  <<[type |-> "aes-256", header |-> <<162, 1>>, size |-> 32]>>

\* a multikey: two header bytes followed by n key bytes, all of value b
Multikey(h0, h1, n, b) == <<h0, h1>> \o [i \in 1..n |-> b]
\* a multibase string: its first character and the text after it
MultibaseString(prefix, bytes) ==
  [kind |-> "multibase", header |-> prefix,
   body |-> IF prefix = "u" THEN Base64Url(bytes)
            ELSE [kind |-> "base58btc", of |-> bytes]]

\* the values push.hmacKey.secretKeyMultibase is drawn from
SecretKeyMultibases ==
  {undefined}
    \cup {MultibaseString(prefix, bytes) :
            prefix \in {"u", "z"},
            bytes \in {<<>>, <<162>>}
              \cup {Multikey(h0, h1, n, b) :
                      h0 \in {162, 163}, h1 \in {1, 2},
                      n \in {0, 31, 32, 33}, b \in {0, 255}}}
\* the values bedrock.config.notify.push.hmacKey is drawn from
HmacKeys ==
  {null} \cup [id : {undefined, Str(""), Str("urn:test:hmacKey")},
               secretKeyMultibase : SecretKeyMultibases]

\* secretKeyMultibase?.startsWith(prefix)
StartsWith(string, prefix) ==
  IF string = undefined THEN FALSE ELSE string.header = prefix
\* Buffer.from(string, 'base64url') of the text after the multibase prefix:
\* only base64url text decodes to the bytes it was made from
BufferFromBase64Url(string) ==
  IF string.kind = "base64url" THEN string.of ELSE <<>>
\* buffer[i], counted from 0: undefined (no byte value) beyond the end
ByteAt(buffer, i) == IF i < Len(buffer) THEN buffer[i + 1] ELSE 0 - 1

\* buffer.subarray(start): the bytes from index start on, as a buffer
Subarray(buffer, start) ==
  [kind |-> "buffer", of |-> SubSeq(buffer, start + 1, Len(buffer))]

\* _loadKey(secretKeyMultibase): the secret key, or the error thrown
LoadKeyAnySize(secretKeyMultibase) ==
  IF ~StartsWith(secretKeyMultibase, "u") THEN Error("NotSupportedError")
  ELSE LET multikey == BufferFromBase64Url(secretKeyMultibase.body)
           matched == {i \in 1..Len(SUPPORTED_KEY_TYPES) :
                         /\ ByteAt(multikey, 0)
                              = SUPPORTED_KEY_TYPES[i].header[1]
                         /\ ByteAt(multikey, 1)
                              = SUPPORTED_KEY_TYPES[i].header[2]}
       IN IF matched = {} THEN Error("NotSupportedError")
          ELSE Subarray(multikey, 2)
LoadKey(secretKeyMultibase) ==
  IF ~StartsWith(secretKeyMultibase, "u") THEN Error("NotSupportedError")
  ELSE LET multikey == BufferFromBase64Url(secretKeyMultibase.body)
           matched == {i \in 1..Len(SUPPORTED_KEY_TYPES) :
                         /\ ByteAt(multikey, 0)
                              = SUPPORTED_KEY_TYPES[i].header[1]
                         /\ ByteAt(multikey, 1)
                              = SUPPORTED_KEY_TYPES[i].header[2]}
       IN IF matched = {} THEN Error("NotSupportedError")
          ELSE LET first == CHOOSE i \in matched : \A j \in matched : i <= j
                   size == SUPPORTED_KEY_TYPES[first].size
               IN IF Len(multikey) # 2 + size THEN Error("DataError")
                  ELSE Subarray(multikey, 2)

\* logger.info(message): the call returned after logging this
Info(message) == [kind |-> "ok", logged |-> message]
\* the module before bedrock.init, under the configuration hmacKey
Unloaded(hmacKey) ==
  [hmacKey |-> hmacKey, HMAC_KEY |-> undefined, out |-> NoCall]
\* _loadHmacKey() in a module that stands as load: the module afterwards
LoadedHmacKey(load) ==
  LET hmacKey == load.hmacKey IN
  IF hmacKey = null
  THEN [load EXCEPT !.out = Info("Push notification is disabled.")]
  ELSE IF ~(IsString(hmacKey.id) /\ hmacKey.id # Str(""))
  THEN [load EXCEPT !.out = Error("DataError")]
  ELSE LET secretKey == LoadKey(hmacKey.secretKeyMultibase) IN
       IF secretKey.kind = "error" THEN [load EXCEPT !.out = secretKey]
       ELSE [load EXCEPT !.HMAC_KEY = secretKey,
                         !.out = Info("Push notification is enabled.")]

\* the test application's key: the AES-256 header and 32 key bytes
TestHmacKey ==
  [id |-> Str("urn:test:hmacKey"),
   secretKeyMultibase |-> MultibaseString("u", Multikey(162, 1, 32, 255))]
\* the module once bedrock.init has loaded the test application's key
Started == LoadedHmacKey(Unloaded(TestHmacKey))

Init ==
  /\ origin = [i \in Ids |-> "pending"]
  /\ POLL_CACHE = <<>>
  /\ POLL_RESULT_CACHE = <<>>
  /\ fetch = [c \in Callers |-> NoFetch]
  /\ caller = [c \in Callers |-> Idle]
  /\ ret = NoCall
  /\ polls = 0
  /\ advances = 0
  /\ now = 0
  /\ tokenCall = NoCall
  /\ verifyCall = NoCall
  /\ callback = [i \in Ids |-> undefined]
  /\ request = NoRequest
  /\ response = NoResponse
  /\ keyLoad = Started
  /\ collection = [i \in WatchIds |-> undefined]
  /\ sweep = [p \in Sweepers |-> Scheduled(0)]
  /\ watchCall = NoCall
  /\ process = [p \in Sweepers |-> p]
  /\ TEST_RESCHEDULE_TIME_HOOK = [pr \in Sweepers |-> undefined]
  /\ runWatchersTimerId = [pr \in Sweepers |-> null]
  /\ exiting = [pr \in Sweepers |-> FALSE]
  /\ detached = {}

\* ------------------------------------------------------- exchange poller
\* the application's filterExchange: "dedup" returns nothing when the state
\* is the one the previous result holds, "quiet" returns nothing while the
\* exchange is pending, "fresh" always returns a snapshot
FilterExchange(filter, exchangeState, previousPollResult) ==
  IF \/ /\ filter = "dedup"
        /\ previousPollResult # undefined
        /\ previousPollResult.value # undefined
        /\ previousPollResult.value.state = exchangeState
     \/ /\ filter = "quiet"
        /\ exchangeState = "pending"
    THEN undefined
    ELSE [state |-> exchangeState]

\* pollExchange({id, currentResult}) once zcapClient.read has answered with
\* an exchange in state `got`; n names the object the filter allocates
PollExchange(filter, currentResult, got, n) ==
  LET mutable == ~(got = "complete" \/ got = "invalid")
      filtered == FilterExchange(filter, got, currentResult)
  IN IF filtered = undefined
       THEN [value |-> IF currentResult = undefined THEN undefined
                       ELSE currentResult.value,
             mutable |-> currentResult # undefined /\ currentResult.mutable]
       ELSE [value |-> [state |-> filtered.state, ver |-> n],
             mutable |-> mutable]

\* ------------------------------------------------------------ poll.js

\* the promise of the fetch that caller c started
Promise(c) == [kind |-> "promise", of |-> c]

\* _getUncachedPollResult after `await poller(...)`: the result it builds
NewResultKeepsCurrent(id, currentResult, ret0) ==
  IF currentResult # undefined THEN currentResult
  ELSE [kind |-> "result", id |-> id, sequence |-> 1,
        mutable |-> ret0.mutable, value |-> ret0.value]
NewResult(id, currentResult, ret0) ==
  IF /\ currentResult # undefined
     /\ ret0.value = currentResult.value
     /\ ret0.mutable = currentResult.mutable
    THEN currentResult
    ELSE [kind |-> "result", id |-> id,
          sequence |-> (IF currentResult = undefined THEN 0
                        ELSE currentResult.sequence) + 1,
          mutable |-> ret0.mutable, value |-> ret0.value]

\* TTL of the entry written for a result
ResultTtlDefault(mutable) == PollResultTtl
ResultTtl(mutable) == IF mutable THEN PollResultTtl ELSE MAX_TTL

\* poll(): the quota test made before a new polling operation is admitted
QuotaUnchecked(pollCache, id) == FALSE
QuotaExceeded(pollCache, id) ==
  Len(pollCache) = PollMax /\ ~CacheHas(pollCache, id)

\* memoize: the promise already cached for the key, if any
MemoizedMiss(pollCache, id) == undefined
Memoized(pollCache, id) == CacheGet(pollCache, id)

\* poll(): the cached result the call may return at once
CachedResultIgnored(useCache, resultCache, id) == undefined
CachedResult(useCache, resultCache, id) ==
  IF useCache THEN CacheGet(resultCache, id) ELSE undefined

\* _getUncachedPollResult: a current result that is not mutable is returned
\* without polling
IsTerminalNever(currentResult) == FALSE
IsTerminal(currentResult) ==
  currentResult # undefined /\ ~currentResult.mutable

\* what a call leaves in `ret` when it returns: its arguments, how it was
\* served (role), its outcome, the exchange state its fetch read (got), and
\* what the caches held for the id as the call started (seen, flight)
Outcome(call, role, out, got) ==
  [kind |-> "call", id |-> call.id, useCache |-> call.useCache,
   role |-> role, out |-> out, got |-> got,
   seen |-> call.seen, flight |-> call.flight]

\* a fetch is dropped once its starter and every coalesced caller returned
Awaited(p, callers) ==
  \E d \in Callers : callers[d].st = "awaiting" /\ callers[d].p = p

\* a caller slot is free when its call returned and its fetch is dropped
Free(c) == caller[c].st = "idle" /\ fetch[c].st = "none"

\* poll({id, poller, useCache}) up to its first await; callers are
\* interchangeable, so a call takes the first free slot
PollCall(c, id, useCache) ==
  LET result == CachedResult(useCache, POLL_RESULT_CACHE, id)
      rc1 == IF useCache THEN CacheAfterGet(POLL_RESULT_CACHE, id)
             ELSE POLL_RESULT_CACHE
      promise == Memoized(POLL_CACHE, id)
      \* fn(): _getUncachedPollResult up to `await poller(...)`
      currentResult == CacheGet(rc1, id)
      rc2 == CacheAfterGet(rc1, id)
      terminal == IsTerminal(currentResult)
      me == [st |-> "awaiting", id |-> id, useCache |-> useCache, p |-> c,
             seen |-> CachePeek(POLL_RESULT_CACHE, id),
             flight |-> CachePeek(POLL_CACHE, id)]
  IN
  /\ Free(c)
  /\ \A d \in Callers : d < c => ~Free(d)
  /\ IF result # undefined
       THEN \* served from the result cache
            /\ ret' = Outcome(me, "cached", result, "none")
            /\ POLL_RESULT_CACHE' = rc1
            /\ UNCHANGED <<POLL_CACHE, fetch, caller, polls>>
     ELSE IF QuotaExceeded(POLL_CACHE, id)
       THEN /\ ret' = Outcome(me, "refused", Error("QuotaExceededError"),
                              "none")
            /\ POLL_RESULT_CACHE' = rc1
            /\ UNCHANGED <<POLL_CACHE, fetch, caller, polls>>
     ELSE IF promise # undefined
       THEN \* memoize: reuse the in-flight promise
            /\ caller' = [caller EXCEPT ![c] = [me EXCEPT !.p = promise.of]]
            /\ POLL_CACHE' = CacheAfterGet(POLL_CACHE, id)
            /\ POLL_RESULT_CACHE' = rc1
            /\ UNCHANGED <<fetch, polls, ret>>
     ELSE IF terminal
       THEN \* result is not mutable; update TTL to max and return it
            /\ caller' = [caller EXCEPT ![c] = me]
            /\ fetch' = [fetch EXCEPT ![c] =
                 [st |-> "ok", id |-> id, invoked |-> FALSE, got |-> "none",
                  out |-> currentResult]]
            /\ POLL_RESULT_CACHE' =
                 CacheSet(rc2, PollResultMax, id, currentResult, MAX_TTL)
            /\ POLL_CACHE' = CacheSet(CacheAfterGet(POLL_CACHE, id),
                                      PollMax, id, Promise(c), 0)
            /\ UNCHANGED <<polls, ret>>
     ELSE \* poll resource
            /\ polls < MaxPolls
            /\ caller' = [caller EXCEPT ![c] = me]
            /\ fetch' = [fetch EXCEPT ![c] =
                 [st |-> "polling", id |-> id, invoked |-> TRUE,
                  cur |-> currentResult, n |-> polls + 1]]
            /\ polls' = polls + 1
            /\ POLL_RESULT_CACHE' = rc2
            /\ POLL_CACHE' = CacheSet(CacheAfterGet(POLL_CACHE, id),
                                      PollMax, id, Promise(c), 0)
            /\ UNCHANGED ret
  /\ UNCHANGED <<origin, advances, now>>

\* a poll() call made by the application
Poll(c, id, useCache) ==
  /\ PollCall(c, id, useCache)
  /\ UNCHANGED <<pushVars, watchVars>>

\* the origin server answers zcapClient.read with the exchange as it is now
PollerRead(c) ==
  /\ fetch[c].st = "polling"
  /\ fetch' = [fetch EXCEPT ![c] =
       [@ EXCEPT !.st = "read"] @@ [got |-> origin[fetch[c].id]]]
  /\ UNCHANGED <<origin, POLL_CACHE, POLL_RESULT_CACHE, caller, ret, polls,
                 advances, now>>
  /\ UNCHANGED <<pushVars, watchVars>>

\* the read or the filter fails: pollExchange throws OperationError
PollerThrowForgets(c) ==
  /\ fetch[c].st = "polling"
  /\ fetch' = [fetch EXCEPT ![c] =
       [st |-> "err", id |-> fetch[c].id, invoked |-> TRUE, got |-> "none",
        out |-> Error("OperationError")]]
  /\ POLL_RESULT_CACHE' = CacheDelete(POLL_RESULT_CACHE, fetch[c].id)
  /\ UNCHANGED <<origin, POLL_CACHE, caller, ret, polls, advances, now>>
  /\ UNCHANGED <<pushVars, watchVars>>
PollerThrow(c) ==
  /\ fetch[c].st = "polling"
  /\ fetch' = [fetch EXCEPT ![c] =
       [st |-> "err", id |-> fetch[c].id, invoked |-> TRUE, got |-> "none",
        out |-> Error("OperationError")]]
  /\ UNCHANGED <<origin, POLL_CACHE, POLL_RESULT_CACHE, caller, ret, polls,
                 advances, now>>
  /\ UNCHANGED <<pushVars, watchVars>>

\* the write of a fetched result to the result cache
StoreResult(cache, id, result, mutable) ==
  CacheSet(cache, PollResultMax, id, result, ResultTtl(mutable))

\* the poller returns: _getUncachedPollResult from `await poller` to return;
\* `filter` is the filterExchange of the poller the starting caller passed
PollerReturn(c, filter) ==
  LET f == fetch[c]
      ret0 == PollExchange(filter, f.cur, f.got, f.n)
      result == NewResult(f.id, f.cur, ret0)
  IN
  /\ f.st = "read"
  /\ POLL_RESULT_CACHE' =
       StoreResult(POLL_RESULT_CACHE, f.id, result, ret0.mutable)
  /\ fetch' = [fetch EXCEPT ![c] =
       [st |-> "ok", id |-> f.id, invoked |-> TRUE, got |-> f.got,
        out |-> result]]
  /\ UNCHANGED <<origin, POLL_CACHE, caller, ret, polls, advances, now>>
  /\ UNCHANGED <<pushVars, watchVars>>

Settled(f) == f.st \in {"ok", "err"}

\* memoize's continuation in the caller that started the fetch: the entry
\* of a settled promise is disposed if it is still the cached one
DisposeNever(pollCache, id, promise) == pollCache
DisposeOnSettle(pollCache, id, promise) ==
  IF CachePeek(pollCache, id) = promise THEN CacheDelete(pollCache, id)
  ELSE pollCache

\* the push route's handler resumes from `await poll(...)` in caller c:
\* res.sendStatus(204), or the error handler's status when poll threw
Respond(c, out) ==
  /\ IF request.st = "polling" /\ request.c = c
       THEN /\ request' = NoRequest
            /\ response' = IF out.kind = "result"
                              THEN [status |-> 204, id |-> request.id]
                            ELSE [status |-> 500, id |-> request.id,
                                  name |-> out.name]
       ELSE UNCHANGED <<request, response>>
  /\ UNCHANGED <<tokenCall, verifyCall, callback, keyLoad, watchVars>>

\* the starter's poll() returns with the fetch's outcome
Dispose(c) ==
  LET after == [caller EXCEPT ![c] = Idle] IN
  /\ caller[c].st = "awaiting"
  /\ caller[c].p = c
  /\ Settled(fetch[c])
  /\ POLL_CACHE' = DisposeOnSettle(POLL_CACHE, fetch[c].id, Promise(c))
  /\ caller' = after
  /\ ret' = Outcome(caller[c], "starter", fetch[c].out, fetch[c].got)
  /\ fetch' = IF Awaited(c, after) THEN fetch
              ELSE [fetch EXCEPT ![c] = NoFetch]
  /\ Respond(c, fetch[c].out)
  /\ UNCHANGED <<origin, POLL_RESULT_CACHE, polls, advances, now>>

\* a coalesced caller's await of the shared promise completes
Join(c) ==
  LET p == caller[c].p
      after == [caller EXCEPT ![c] = Idle] IN
  /\ caller[c].st = "awaiting"
  /\ p # c
  /\ Settled(fetch[p])
  /\ caller' = after
  /\ ret' = Outcome(caller[c], "joiner", fetch[p].out, fetch[p].got)
  /\ fetch' = IF Awaited(p, after) THEN fetch
              ELSE [fetch EXCEPT ![p] = NoFetch]
  /\ Respond(c, fetch[p].out)
  /\ UNCHANGED <<origin, POLL_CACHE, POLL_RESULT_CACHE, polls, advances, now>>

\* the exchange changes state at the origin
OriginUpdate(id, s) ==
  /\ origin[id] # s
  /\ origin' = [origin EXCEPT ![id] = s]
  /\ UNCHANGED <<POLL_CACHE, POLL_RESULT_CACHE, fetch, caller, ret, polls,
                 advances, now>>
  /\ UNCHANGED <<pushVars, watchVars>>

\* time passes
Advance(dt) ==
  /\ advances < MaxAdvances
  /\ advances' = advances + 1
  /\ now' = now + dt
  /\ POLL_RESULT_CACHE' = Aged(POLL_RESULT_CACHE, dt)
  /\ POLL_CACHE' = Aged(POLL_CACHE, dt)
  /\ UNCHANGED <<origin, fetch, caller, ret, polls>>
  /\ UNCHANGED <<pushVars, watchVars>>

\* sequential use: a call is made only when no other call is pending
PollSeq(c, id, useCache) ==
  /\ \A d \in Callers : caller[d].st = "idle"
  /\ Poll(c, id, useCache)

Next ==
  \/ \E c \in Callers, id \in Ids, useCache \in BOOLEAN :
       Poll(c, id, useCache)
  \/ \E c \in Callers : PollerRead(c)
  \/ \E c \in Callers : PollerThrow(c)
  \/ \E c \in Callers, filter \in Filters : PollerReturn(c, filter)
  \/ \E c \in Callers : Dispose(c)
  \/ \E c \in Callers : Join(c)
  \/ \E id \in Ids, s \in States : OriginUpdate(id, s)
  \/ \E dt \in Steps : Advance(dt)

Spec == Init /\ [][Next]_vars

\* every call awaited before the next is made
NextSeq ==
  \/ \E c \in Callers, id \in Ids, useCache \in BOOLEAN :
       PollSeq(c, id, useCache)
  \/ \E c \in Callers : PollerRead(c)
  \/ \E c \in Callers : PollerThrow(c)
  \/ \E c \in Callers, filter \in Filters : PollerReturn(c, filter)
  \/ \E c \in Callers : Dispose(c)
  \/ \E id \in Ids, s \in States : OriginUpdate(id, s)
  \/ \E dt \in Steps : Advance(dt)

SpecSeq == Init /\ [][NextSeq]_vars

\* sequential calls with a poller whose filter may be any of the three
NextAnyFilter ==
  \/ \E c \in Callers, id \in Ids, useCache \in BOOLEAN :
       PollSeq(c, id, useCache)
  \/ \E c \in Callers : PollerRead(c)
  \/ \E c \in Callers : PollerThrow(c)
  \/ \E c \in Callers, filter \in AnyFilters : PollerReturn(c, filter)
  \/ \E c \in Callers : Dispose(c)
  \/ \E id \in Ids, s \in States : OriginUpdate(id, s)
  \/ \E dt \in Steps : Advance(dt)

SpecAnyFilter == Init /\ [][NextAnyFilter]_vars

\* law L2's setting: sequential calls with useCache = true, a poller that
\* answers, no more than one default TTL of elapsed time, and no more ids
\* polled than the result cache holds (so that nothing is evicted)
Polled == {id \in Ids : IndexOf(POLL_RESULT_CACHE, id) # 0
                        \/ \E c \in Callers : fetch[c].st # "none"
                                               /\ fetch[c].id = id}

NextL2 ==
  \/ \E c \in Callers, id \in Ids :
       /\ Cardinality(Polled \cup {id}) <= PollResultMax
       /\ PollSeq(c, id, TRUE)
  \/ \E c \in Callers : PollerRead(c)
  \/ \E c \in Callers, filter \in Filters : PollerReturn(c, filter)
  \/ \E c \in Callers : Dispose(c)
  \/ \E id \in Ids, s \in States : OriginUpdate(id, s)
  \/ /\ \A i \in 1..Len(POLL_RESULT_CACHE) :
          POLL_RESULT_CACHE[i].age + PollResultTtl <= PollResultTtl
     /\ Advance(PollResultTtl)

SpecL2 == Init /\ [][NextL2]_vars

\* ------------------------------------------------------------ push tokens
\* Strings and buffers are modelled by how they were built, so that parsing
\* one succeeds only on text of the right form.
HMAC_KEY == "urn:test:hmacKey"

Date(t) == [kind |-> "date", time |-> t]
IsDate(x) == x.kind = "date"

JsonStringify(v) == [kind |-> "json", of |-> v]
\* `u${body}`
Multibase(body) == [kind |-> "multibase", header |-> "u", body |-> body]
\* Buffer.from(string): the bytes of the text itself, nothing is decoded
BufferFrom(string) == [kind |-> "buffer", of |-> string]
\* string.slice(n) of a multibase string, n = 0 or 1
Slice(string, n) == IF n = 0 THEN string ELSE string.body
\* JSON.parse(buffer): the buffer's text must itself be JSON
JsonParse(buffer) ==
  IF buffer.of.kind = "json" THEN [kind |-> "ok", of |-> buffer.of.of]
  ELSE Error("SyntaxError")

\* _hs256({secret, string})
Hs256(secret, string) == [kind |-> "hs256", secret |-> secret, of |-> string]

\* _compareTime({t1, t2, maxClockSkew})
CompareTime(t1, t2, maxClockSkew) ==
  LET d == IF t1 >= t2 THEN t1 - t2 ELSE t2 - t1 IN
  IF d < maxClockSkew * 1000 THEN 0
  ELSE IF t1 < t2 THEN 0 - 1 ELSE 1

\* createPushToken({event, expires}) called at time t: what its promise
\* settles with
CreatePushToken(event, expires, t) ==
  IF ~IsString(event) \/ ~IsDate(expires) THEN Error("AssertionError")
  ELSE LET exp == IF expires = undefined THEN Date(t + TWENTY_MINUTES)
                  ELSE expires
           json == JsonStringify(<<event, exp.time>>)
           payload == Base64Url(json)
           signature == Hs256(HMAC_KEY, payload)
       IN [kind |-> "ok",
           token |-> <<Multibase(payload), Multibase(signature)>>,
           signature |-> signature]

\* every failure inside verifyPushToken's try block is rethrown as this
\* outer error, which keeps the failure as its cause
InvalidPushTokenNamedByCause(cause) ==
  [kind |-> "error", name |-> cause, message |-> "Invalid push token.",
   httpStatusCode |-> 400, cause |-> cause]
InvalidPushToken(cause) ==
  [kind |-> "error", name |-> "OperationError",
   message |-> "Invalid push token.", httpStatusCode |-> 400,
   cause |-> cause]

VerifyPushTokenAccepts(pushToken, expectedEvent, t) ==
  [kind |-> "ok", event |-> expectedEvent, expires |-> t]
\* verifyPushToken({pushToken, expectedEvent}) called at time t; pushToken
\* is given as pushToken.split('.')
VerifyPushToken(pushToken, expectedEvent, t) ==
  LET mbPayload == pushToken[1]
      mbSignature == pushToken[2]
      parsed == JsonParse(BufferFrom(Slice(mbPayload, 0)))
      event == parsed.of[1]
      expires == parsed.of[2]
      \* createPushToken is not awaited: destructuring its promise
      signature == undefined
  IN IF Len(pushToken) < 2 THEN InvalidPushToken("TypeError")
     ELSE IF ~(mbPayload.header = "u" /\ mbSignature.header = "u")
       THEN InvalidPushToken("SyntaxError: Invalid push token format.")
     ELSE IF parsed.kind = "error"
       THEN InvalidPushToken("SyntaxError: JSON.parse")
     ELSE IF CompareTime(t, expires, MAX_CLOCK_SKEW) = 1
       THEN InvalidPushToken("ConstraintError: Push token has expired.")
     ELSE IF event # expectedEvent
       THEN InvalidPushToken("ConstraintError: expectedEvent")
     ELSE IF signature = undefined THEN InvalidPushToken("TypeError")
     ELSE IF BufferFrom(Slice(mbSignature, 1)) # BufferFrom(signature)
       THEN InvalidPushToken("ConstraintError: signature")
     ELSE [kind |-> "ok", event |-> event, expires |-> expires]

\* the application creates its push token, with or without `expires`
CreateToken(expires) ==
  /\ tokenCall = NoCall
  /\ tokenCall' = [kind |-> "call", event |-> Str("exchangeUpdated"),
                   expires |-> expires,
                   out |-> CreatePushToken(Str("exchangeUpdated"), expires,
                                           now)]
  /\ UNCHANGED <<pollVars, verifyCall, callback, request, response>>
  /\ UNCHANGED <<keyLoad, watchVars>>

\* the application creates an exchange whose callback URL holds the token
CreateExchange(id) ==
  /\ tokenCall.kind = "call" /\ tokenCall.out.kind = "ok"
  /\ callback[id] = undefined /\ origin[id] = "pending"
  /\ callback' = [callback EXCEPT ![id] =
                    [kind |-> "url", pushToken |-> tokenCall.out.token]]
  /\ UNCHANGED <<pollVars, tokenCall, verifyCall, request, response>>
  /\ UNCHANGED <<keyLoad, watchVars>>

\* the origin completes the exchange and posts the event to its callback
UseExchange(id) ==
  /\ origin[id] = "pending" /\ request = NoRequest
  /\ origin' = [origin EXCEPT ![id] = "complete"]
  /\ request' = IF callback[id] = undefined THEN NoRequest
                ELSE [st |-> "posted", id |-> id,
                      pushToken |-> callback[id].pushToken]
  /\ UNCHANGED <<POLL_CACHE, POLL_RESULT_CACHE, fetch, caller, ret, polls,
                 advances, now, tokenCall, verifyCall, callback, response>>
  /\ UNCHANGED <<keyLoad, watchVars>>

\* pushEventMiddleware: next() runs only after verifyPushToken returned
CallsNextAlways(verified) == TRUE
CallsNext(verified) == verified.kind # "error"

\* POST /callbacks/:pushToken: the verify middleware, then the handler up
\* to `await poll({id, poller, useCache: false})`
PushEvent(c) ==
  LET verified == VerifyPushToken(request.pushToken,
                                  Str("exchangeUpdated"), now)
  IN
  /\ request.st = "posted"
  /\ IF ~CallsNext(verified)
       THEN /\ response' = [status |-> verified.httpStatusCode,
                            id |-> request.id,
                            name |-> verified.name]
            /\ request' = NoRequest
            /\ UNCHANGED pollVars
       ELSE /\ PollCall(c, request.id, FALSE)
            /\ IF caller'[c].st = "idle"
                 THEN /\ response' = [status |-> 500, id |-> request.id,
                                      name |-> ret'.out.name]
                      /\ request' = NoRequest
                 ELSE /\ request' = [st |-> "polling", id |-> request.id,
                                     c |-> c]
                      /\ UNCHANGED response
  /\ UNCHANGED <<tokenCall, verifyCall, callback, keyLoad, watchVars>>

NextPush ==
  \/ \E expires \in {undefined, Date(now + TWENTY_MINUTES)} :
       CreateToken(expires)
  \/ \E id \in Ids : CreateExchange(id)
  \/ \E c \in Callers, id \in Ids : Poll(c, id, TRUE)
  \/ \E c \in Callers : PollerRead(c)
  \/ \E c \in Callers, filter \in Filters : PollerReturn(c, filter)
  \/ \E c \in Callers : Dispose(c)
  \/ \E c \in Callers : Join(c)
  \/ \E id \in Ids : UseExchange(id)
  \/ \E c \in Callers : PushEvent(c)

SpecPush == Init /\ [][NextPush]_vars

\* ---------------------------------------------- push tokens, any caller
Events == {Str("exchangeUpdated"), Str("watchUpdated")}
\* clock steps around the allowed skew
TokenSteps == {MAX_CLOCK_SKEW, MAX_CLOCK_SKEW + 1, MAX_CLOCK_SKEW * 1000}
\* what a client may present in place of the token it was given
Presented == {"asIs", "badSignature", "forgedPayload", "noHeader", "noDot"}

Tampered(token, how) ==
  LET signed == token[1].body.of.of IN
  CASE how = "asIs" -> token
    [] how = "badSignature" ->
         <<token[1], Multibase(Hs256("urn:other:key", token[1].body))>>
    [] how = "forgedPayload" ->
         <<Multibase(Base64Url(JsonStringify(
             <<signed[1], signed[2] + TWENTY_MINUTES>>))), token[2]>>
    [] how = "noHeader" -> <<[token[1] EXCEPT !.header = "z"], token[2]>>
    [] how = "noDot" -> <<token[1]>>

\* the signature the process key gives the payload a token presents
ValidlySigned(token) ==
  /\ Len(token) = 2
  /\ token[1].header = "u" /\ token[2].header = "u"
  /\ token[2].body = Hs256(HMAC_KEY, token[1].body)

\* createPushToken({event, expires}) called by the application
CreateTokenFor(event, expires) ==
  /\ tokenCall = NoCall
  /\ tokenCall' = [kind |-> "call", event |-> event, expires |-> expires,
                   out |-> CreatePushToken(event, expires, now)]
  /\ UNCHANGED <<pollVars, verifyCall, callback, request, response>>
  /\ UNCHANGED <<keyLoad, watchVars>>

\* verifyPushToken({pushToken, expectedEvent}) called on a presented token
Verify(how, expectedEvent) ==
  LET pushToken == Tampered(tokenCall.out.token, how) IN
  /\ tokenCall.kind = "call" /\ tokenCall.out.kind = "ok"
  /\ verifyCall' = [kind |-> "call", how |-> how, pushToken |-> pushToken,
                    expectedEvent |-> expectedEvent, at |-> now,
                    out |-> VerifyPushToken(pushToken, expectedEvent, now)]
  /\ UNCHANGED <<pollVars, tokenCall, callback, request, response>>
  /\ UNCHANGED <<keyLoad, watchVars>>

\* some client posts an event for an exchange to /callbacks/:pushToken
PostCallback(how, id) ==
  /\ tokenCall.kind = "call" /\ tokenCall.out.kind = "ok"
  /\ request = NoRequest
  /\ request' = [st |-> "posted", id |-> id,
                 pushToken |-> Tampered(tokenCall.out.token, how)]
  /\ UNCHANGED <<pollVars, tokenCall, verifyCall, callback, response>>
  /\ UNCHANGED <<keyLoad, watchVars>>

NextToken ==
  \/ \E event \in Events,
        expires \in {undefined, Date(now), Date(now + TWENTY_MINUTES)} :
       CreateTokenFor(event, expires)
  \/ \E how \in Presented, expectedEvent \in Events \cup {undefined} :
       Verify(how, expectedEvent)
  \/ \E how \in Presented, id \in Ids : PostCallback(how, id)
  \/ \E c \in Callers : PushEvent(c)
  \/ \E dt \in TokenSteps : Advance(dt)

SpecToken == Init /\ [][NextToken]_vars

\* bedrock.events.on('bedrock.init', ...): the listener runs once, when the
\* application starts, and calls _loadHmacKey()
LoadHmacKey ==
  /\ keyLoad.out = NoCall
  /\ keyLoad' = LoadedHmacKey(keyLoad)
  /\ UNCHANGED <<pollVars, tokenCall, verifyCall, callback, request,
                 response, watchVars>>

\* a module that has not started yet, under any of the configurations
InitKey ==
  /\ origin = [i \in Ids |-> "pending"]
  /\ POLL_CACHE = <<>>
  /\ POLL_RESULT_CACHE = <<>>
  /\ fetch = [c \in Callers |-> NoFetch]
  /\ caller = [c \in Callers |-> Idle]
  /\ ret = NoCall
  /\ polls = 0
  /\ advances = 0
  /\ now = 0
  /\ tokenCall = NoCall
  /\ verifyCall = NoCall
  /\ callback = [i \in Ids |-> undefined]
  /\ request = NoRequest
  /\ response = NoResponse
  /\ keyLoad \in {Unloaded(hmacKey) : hmacKey \in HmacKeys}
  /\ collection = [i \in WatchIds |-> undefined]
  /\ sweep = [p \in Sweepers |-> Scheduled(0)]
  /\ watchCall = NoCall
  /\ process = [p \in Sweepers |-> p]
  /\ TEST_RESCHEDULE_TIME_HOOK = [pr \in Sweepers |-> undefined]
  /\ runWatchersTimerId = [pr \in Sweepers |-> null]
  /\ exiting = [pr \in Sweepers |-> FALSE]
  /\ detached = {}

NextKey == LoadHmacKey

SpecKey == InitKey /\ [][NextKey]_vars

\* ------------------------------------------------------------ watches.js
\* JS values: booleans, and the registry of watcher names
Bool(b) == [kind |-> "boolean", of |-> b]
WATCHERS == {"watchExchange"}
WatchValues == {null, [state |-> "pending"]}
UpdateValues == WatchValues \cup {[state |-> "complete"]}
Ttls == {300, ONE_HOUR_IN_SECONDS + 1}
AnyTtls == Ttls \cup {ONE_HOUR_IN_SECONDS}
WatchSteps == {FIVE_SECONDS}

DuplicateError ==
  [kind |-> "error", name |-> "DuplicateError", httpStatusCode |-> 409]

InvalidStateError(expected) ==
  [kind |-> "error", name |-> "InvalidStateError", httpStatusCode |-> 409,
   expected |-> expected]

ConstraintError ==
  [kind |-> "error", name |-> "ConstraintError", httpStatusCode |-> 400]

NotFoundError ==
  [kind |-> "error", name |-> "NotFoundError", httpStatusCode |-> 404]

\* create({id, watcher, expires}) at time t: the collection afterwards and
\* what the call returns or throws; of `meta` only watcherLock is kept, the
\* timestamps meta.created and meta.updated are written and never read
CreateOverwrites(coll, id, watcher, expires, t) ==
  LET watch == [id |-> id, sequence |-> 0, watcher |-> watcher,
                value |-> null, expires |-> expires]
      meta == [watcherLock |-> undefined]
  IN IF ~IsDate(expires)
       THEN [coll |-> coll, out |-> Error("AssertionError")]
       ELSE [coll |-> [coll EXCEPT ![id] = [watch |-> watch,
                                            meta |-> meta]],
             out |-> [kind |-> "record", watch |-> watch, meta |-> meta]]
Create(coll, id, watcher, expires, t) ==
  LET watch == [id |-> id, sequence |-> 0, watcher |-> watcher,
                value |-> null, expires |-> expires]
      meta == [watcherLock |-> undefined]
  IN IF ~IsDate(expires)
       THEN [coll |-> coll, out |-> Error("AssertionError")]
       ELSE IF coll[id] # undefined
         THEN [coll |-> coll, out |-> DuplicateError]
         ELSE [coll |-> [coll EXCEPT ![id] = [watch |-> watch,
                                              meta |-> meta]],
               out |-> [kind |-> "record", watch |-> watch, meta |-> meta]]

\* update({watch}) at time t: updateOne on the record with this id whose
\* stored sequence is watch.sequence - 1
UpdateUnsequenced(coll, watch, t) ==
  IF coll[watch.id] # undefined
    THEN [coll |-> [coll EXCEPT ![watch.id] =
                      [watch |-> watch, meta |-> @.meta]],
          out |-> Bool(TRUE)]
    ELSE [coll |-> coll, out |-> InvalidStateError(watch.sequence - 1)]
Update(coll, watch, t) ==
  IF /\ coll[watch.id] # undefined
     /\ coll[watch.id].watch.sequence = watch.sequence - 1
    THEN [coll |-> [coll EXCEPT ![watch.id] =
                      [watch |-> watch, meta |-> @.meta]],
          out |-> Bool(TRUE)]
    ELSE [coll |-> coll, out |-> InvalidStateError(watch.sequence - 1)]

\* get({id}): findOne, NotFoundError when there is no such record
WatchesGet(coll, id) ==
  IF coll[id] = undefined THEN NotFoundError
  ELSE [kind |-> "record", watch |-> coll[id].watch, meta |-> coll[id].meta]

\* remove({id}): deleteOne
RemoveNothing(coll, id) == coll
Remove(coll, id) == [coll EXCEPT ![id] = undefined]

\* the records mark's query selects at time t: the one named by id, or,
\* without id, those with no watcherLock or a watcherLock.expires > t
MarkQueryIgnoresId(coll, id, t) ==
  {i \in DOMAIN coll :
     /\ coll[i] # undefined
     /\ \/ coll[i].meta.watcherLock = undefined
        \/ /\ coll[i].meta.watcherLock # undefined
           /\ coll[i].meta.watcherLock.expires.time > t}
MarkQuery(coll, id, t) ==
  IF id # undefined
    THEN {i \in DOMAIN coll : coll[i] # undefined /\ Str(i) = id}
    ELSE {i \in DOMAIN coll :
            /\ coll[i] # undefined
            /\ \/ coll[i].meta.watcherLock = undefined
               \/ /\ coll[i].meta.watcherLock # undefined
                  /\ coll[i].meta.watcherLock.expires.time > t}

\* mark({watcherLock, id, limit}) at time t: updateMany sets the lock on
\* every record the query selects (`limit` is no option of updateMany, it
\* updates all the documents that match); returns result.modifiedCount > 0
Mark(coll, watcherLock, id, limit, t) ==
  LET matched == MarkQuery(coll, id, t)
  IN [coll |-> [i \in DOMAIN coll |->
                  IF i \in matched
                    THEN [coll[i] EXCEPT !.meta.watcherLock = watcherLock]
                    ELSE coll[i]],
      out |-> Bool(Cardinality(matched) > 0)]

\* find({query: {'meta.watcherLock.id': lockId}, options: {limit}}): the
\* answers the cursor can give, any `limit` of the matching records when
\* there are more (the query has no sort)
Find(coll, lockId, limit) ==
  LET matched == {i \in DOMAIN coll :
                    /\ coll[i] # undefined
                    /\ coll[i].meta.watcherLock # undefined
                    /\ coll[i].meta.watcherLock.id = lockId}
  IN {records \in SUBSET matched :
        Cardinality(records) = IF Cardinality(matched) < limit
                                 THEN Cardinality(matched) ELSE limit}

\* ----------------------------------------------------------- watchers.js
\* watch({id, watcher, value, ttl}) at time t
WatchUnbounded(coll, id, watcher, value, ttl, t) ==
  IF watcher \notin WATCHERS
    THEN [coll |-> coll, out |-> Error("Error")]
    ELSE LET created == Create(coll, id, watcher, Date(t + ttl * 1000), t)
         IN [coll |-> created.coll,
             out |-> IF created.out.kind = "error" THEN created.out
                     ELSE undefined]
Watch(coll, id, watcher, value, ttl, t) ==
  IF ttl > ONE_HOUR_IN_SECONDS
    THEN [coll |-> coll, out |-> ConstraintError]
    ELSE IF watcher \notin WATCHERS
      THEN [coll |-> coll, out |-> Error("Error")]
      ELSE LET created == Create(coll, id, watcher,
                                 Date(t + ttl * 1000), t)
           IN [coll |-> created.coll,
               out |-> IF created.out.kind = "error" THEN created.out
                       ELSE undefined]

\* the application's filterExchange({record, exchange}) of a watcher
FilterWatched(filter, record, exchangeState) ==
  IF /\ filter = "dedup"
     /\ record.watch.value # null
     /\ record.watch.value.state = exchangeState
    THEN undefined
    ELSE [state |-> exchangeState]

\* watchExchange({record}) once zcapClient.read has answered with an
\* exchange in state exchangeState
WatchExchange(filter, record, exchangeState) ==
  IF /\ record.watch.value # null
     /\ record.watch.value.state \in {"complete", "invalid"}
    THEN [value |-> undefined]
    ELSE [value |-> FilterWatched(filter, record, exchangeState)]

\* const {marked} = <what mark returned>
Marked(result) ==
  IF result.kind = "object" THEN result.marked ELSE undefined

\* the delay _runWatchers computes from `marked`
RescheduleTime(marked, limit) ==
  IF marked = undefined THEN ONE_SECOND
    ELSE IF marked.of = limit THEN 0
    ELSE IF marked.of = 0 THEN ONE_SECOND * 2
    ELSE ONE_SECOND

\* _updateWatchRecord({record, value}) at time t: the collection afterwards
\* and the error it logged, if any
UpdateWatchRecordRethrows(coll, record, value, t) ==
  LET sequence == record.watch.sequence + 1
      watch == [record.watch EXCEPT !.sequence = sequence, !.value = value]
      updated == Update(coll, watch, t)
  IN [coll |-> updated.coll, logged |-> undefined,
      thrown |-> IF updated.out.kind = "error" THEN updated.out
                 ELSE undefined]
UpdateWatchRecord(coll, record, value, t) ==
  LET sequence == record.watch.sequence + 1
      watch == [record.watch EXCEPT !.sequence = sequence, !.value = value]
      updated == Update(coll, watch, t)
  IN [coll |-> updated.coll,
      logged |-> IF updated.out.kind = "error" THEN updated.out
                 ELSE undefined,
      thrown |-> undefined]

\* uuid(): an id no record and no running sweep holds
LockIds == 1..(Cardinality(DOMAIN collection) + NSweepers)
HeldLockIds ==
  {collection[i].meta.watcherLock.id :
     i \in {j \in DOMAIN collection : /\ collection[j] # undefined
                             /\ collection[j].meta.watcherLock # undefined}}
  \cup {sweep[p].watcherLock.id :
          p \in {q \in Sweepers : sweep[q].st \in {"marked", "running"}}}
Uuid == CHOOSE u \in LockIds \ HeldLockIds :
          \A v \in LockIds \ HeldLockIds : u <= v

NoJob == [st |-> "none"]
NoLoop == [st |-> "none"]

\* what setTimeout returns for the timer that restarts loop p
Timeout(p) == [kind |-> "Timeout", of |-> p]

\* the delay the finally block hands to setTimeout in process pr
HookedTime(pr, rescheduleTime) ==
  IF TEST_RESCHEDULE_TIME_HOOK[pr] # undefined
    THEN TEST_RESCHEDULE_TIME_HOOK[pr].returns
    ELSE rescheduleTime

\* the finally block of loop p: `_runWatchersTimerId = setTimeout(...)`
NoFinally(p, rescheduleTime) ==
  /\ sweep' = [sweep EXCEPT ![p] = NoLoop]
  /\ UNCHANGED runWatchersTimerId
Finally(p, rescheduleTime) ==
  /\ sweep' = [sweep EXCEPT ![p] =
                 Scheduled(HookedTime(process[p], rescheduleTime))]
  /\ runWatchersTimerId' =
       [runWatchersTimerId EXCEPT ![process[p]] = Timeout(p)]

\* the watcher calls of sweep p that are still running when Promise.all
\* rejects because of the call for record `failed`: nothing cancels them
Unsettled(p, failed) ==
  {[id |-> i, job |-> sweep[p].jobs[i]] :
     i \in {j \in DOMAIN sweep[p].jobs \ failed :
              sweep[p].jobs[j].st \in {"found", "update"}}}

\* the timer of loop p fires, or _runWatchers is called: the function up
\* to `await watches.mark(...)` and its answer
RunWatchers(p) ==
  LET watcherLock == [id |-> Uuid, expires |-> Date(now + FIVE_SECONDS)]
      limit == 10
      marking == Mark(collection, watcherLock, undefined, limit, now)
  IN
  /\ sweep[p].st = "scheduled"
  /\ collection' = marking.coll
  /\ sweep' = [sweep EXCEPT ![p] =
                 [st |-> "marked", watcherLock |-> watcherLock,
                  rescheduleTime |->
                    RescheduleTime(Marked(marking.out), limit)]]
  /\ runWatchersTimerId' =
       [runWatchersTimerId EXCEPT
          ![process[p]] = IF @ = Timeout(p) THEN null ELSE @]
  /\ UNCHANGED <<pollVars, pushVars, watchCall, process,
                 TEST_RESCHEDULE_TIME_HOOK, exiting, detached>>

\* the answer of `await watches.find(...)`: one watcher call per record,
\* which reads nothing but the record's `watch`; a record whose watcher is
\* not registered makes its call throw at once, Promise.all reject and the
\* sweep go to its catch and finally blocks
FindMarked(p) ==
  /\ sweep[p].st = "marked"
  /\ \E records \in Find(collection, sweep[p].watcherLock.id, 10) :
       LET unregistered ==
             {i \in records : collection[i].watch.watcher \notin WATCHERS}
           jobs == [i \in DOMAIN collection |->
                      IF i \in records
                        THEN [st |-> "found",
                              record |-> [watch |-> collection[i].watch]]
                        ELSE NoJob]
       IN IF unregistered = {}
            THEN /\ sweep' = [sweep EXCEPT ![p] =
                               [st |-> "running",
                                watcherLock |-> @.watcherLock,
                                rescheduleTime |-> @.rescheduleTime,
                                jobs |-> jobs]]
                 /\ UNCHANGED <<runWatchersTimerId, detached>>
            ELSE /\ Finally(p, sweep[p].rescheduleTime)
                 /\ detached' = detached \cup
                      {[id |-> i, job |-> jobs[i]] :
                         i \in records \ unregistered}
  /\ UNCHANGED <<pollVars, pushVars, collection, watchCall, process,
                 TEST_RESCHEDULE_TIME_HOOK, exiting>>

\* `await fn({record})` answers for one record of the sweep
RunWatcherAlwaysUpdates(p, id, filter) ==
  /\ sweep[p].st = "running"
  /\ sweep[p].jobs[id].st = "found"
  /\ LET record == sweep[p].jobs[id].record
         value == WatchExchange(filter, record, origin[id]).value
     IN sweep' = [sweep EXCEPT ![p].jobs[id] =
                    [st |-> "update", record |-> record, value |-> value]]
  /\ UNCHANGED <<pollVars, pushVars, collection, watchCall, schedVars>>
RunWatcher(p, id, filter) ==
  /\ sweep[p].st = "running"
  /\ sweep[p].jobs[id].st = "found"
  /\ LET record == sweep[p].jobs[id].record
         value == WatchExchange(filter, record, origin[id]).value
     IN sweep' = [sweep EXCEPT ![p].jobs[id] =
                    IF value # undefined
                      THEN [st |-> "update", record |-> record,
                            value |-> value]
                      ELSE [st |-> "done", read |-> record.watch.sequence,
                            value |-> undefined, logged |-> undefined]]
  /\ UNCHANGED <<pollVars, pushVars, collection, watchCall, schedVars>>

\* `await _updateWatchRecord({record, value})` for one record of the sweep;
\* were it to throw, Promise.all would reject and the sweep go to its
\* catch and finally blocks
UpdateRecord(p, id) ==
  /\ sweep[p].st = "running"
  /\ sweep[p].jobs[id].st = "update"
  /\ sweep[p].jobs[id].record.watch.sequence < MaxSequence
  /\ LET job == sweep[p].jobs[id]
         updating == UpdateWatchRecord(collection, job.record, job.value, now)
     IN /\ collection' = updating.coll
        /\ IF updating.thrown # undefined
             THEN /\ Finally(p, sweep[p].rescheduleTime)
                  /\ detached' = detached \cup Unsettled(p, {id})
             ELSE /\ sweep' = [sweep EXCEPT ![p].jobs[id] =
                                [st |-> "done",
                                 read |-> job.record.watch.sequence,
                                 value |-> job.value,
                                 logged |-> updating.logged]]
                  /\ UNCHANGED <<runWatchersTimerId, detached>>
  /\ UNCHANGED <<pollVars, pushVars, watchCall, process,
                 TEST_RESCHEDULE_TIME_HOOK, exiting>>

\* Promise.all has settled: the finally block sets the next timer
Reschedule(p) ==
  /\ sweep[p].st = "running"
  /\ \A i \in DOMAIN sweep[p].jobs :
       sweep[p].jobs[i].st \in {"none", "done"}
  /\ Finally(p, sweep[p].rescheduleTime)
  /\ UNCHANGED <<pollVars, pushVars, collection, watchCall, process,
                 TEST_RESCHEDULE_TIME_HOOK, exiting, detached>>

\* `await watches.mark(...)` rejects (the database fails): catch logs,
\* finally sets the next timer with the delay the tick started with
MarkFails(p) ==
  /\ sweep[p].st = "scheduled"
  /\ Finally(p, ONE_SECOND)
  /\ UNCHANGED <<pollVars, pushVars, collection, watchCall, process,
                 TEST_RESCHEDULE_TIME_HOOK, exiting, detached>>

\* `await watches.find(...)` rejects
FindFails(p) ==
  /\ sweep[p].st = "marked"
  /\ Finally(p, sweep[p].rescheduleTime)
  /\ UNCHANGED <<pollVars, pushVars, collection, watchCall, process,
                 TEST_RESCHEDULE_TIME_HOOK, exiting, detached>>

\* `await fn({record})` rejects for one record (zcapClient.read or
\* filterExchange threw, watchExchange rethrows it as OperationError):
\* Promise.all rejects at once, the other calls run on
WatcherThrows(p, id) ==
  /\ sweep[p].st = "running"
  /\ sweep[p].jobs[id].st = "found"
  /\ Finally(p, sweep[p].rescheduleTime)
  /\ detached' = detached \cup Unsettled(p, {id})
  /\ UNCHANGED <<pollVars, pushVars, collection, watchCall, process,
                 TEST_RESCHEDULE_TIME_HOOK, exiting>>

\* a watcher call that outlived its sweep answers
DetachedRunWatcher(d, filter) ==
  /\ d \in detached
  /\ d.job.st = "found"
  /\ LET value == WatchExchange(filter, d.job.record, origin[d.id]).value
     IN detached' =
          (detached \ {d}) \cup
            (IF value # undefined
               THEN {[id |-> d.id,
                      job |-> [st |-> "update", record |-> d.job.record,
                               value |-> value]]}
               ELSE {})
  /\ UNCHANGED <<pollVars, pushVars, collection, sweep, watchCall, process,
                 TEST_RESCHEDULE_TIME_HOOK, runWatchersTimerId, exiting>>

\* a watcher call that outlived its sweep throws: nobody is told
DetachedThrows(d) ==
  /\ d \in detached
  /\ d.job.st = "found"
  /\ detached' = detached \ {d}
  /\ UNCHANGED <<pollVars, pushVars, collection, sweep, watchCall, process,
                 TEST_RESCHEDULE_TIME_HOOK, runWatchersTimerId, exiting>>

\* the _updateWatchRecord of a watcher call that outlived its sweep
DetachedUpdate(d) ==
  /\ d \in detached
  /\ d.job.st = "update"
  /\ d.job.record.watch.sequence < MaxSequence
  /\ collection' =
       UpdateWatchRecord(collection, d.job.record, d.job.value, now).coll
  /\ detached' = detached \ {d}
  /\ UNCHANGED <<pollVars, pushVars, sweep, watchCall, process,
                 TEST_RESCHEDULE_TIME_HOOK, runWatchersTimerId, exiting>>

\* _setRescheduleTimeHook(fn) in process pr: sets the hook, clears the
\* timer _runWatchersTimerId names, which ends that loop if the timer is
\* pending and does nothing otherwise, and calls _runWatchers(), which is
\* one more loop, here in the first free place
SetRescheduleTimeHook(pr, fn) ==
  LET cleared == [p \in Sweepers |->
                    IF runWatchersTimerId[pr] = Timeout(p)
                      THEN NoLoop ELSE sweep[p]]
      free == {p \in Sweepers : process[p] = pr /\ cleared[p] = NoLoop}
  IN
  /\ free # {}
  /\ TEST_RESCHEDULE_TIME_HOOK' =
       [TEST_RESCHEDULE_TIME_HOOK EXCEPT ![pr] = fn]
  /\ runWatchersTimerId' = [runWatchersTimerId EXCEPT ![pr] = null]
  /\ sweep' = [cleared EXCEPT
                 ![CHOOSE p \in free : \A q \in free : p <= q] =
                   Scheduled(0)]
  /\ UNCHANGED <<pollVars, pushVars, collection, watchCall, process,
                 exiting, detached>>

\* process pr is told to shut down; nothing in watchers.js listens
Exit(pr) ==
  /\ ~exiting[pr]
  /\ exiting' = [exiting EXCEPT ![pr] = TRUE]
  /\ UNCHANGED <<pollVars, pushVars, collection, sweep, watchCall, process,
                 TEST_RESCHEDULE_TIME_HOOK, runWatchersTimerId, detached>>

\* the application calls watchers.watch
WatchCall(id, value, ttl) ==
  LET watching == Watch(collection, id, "watchExchange", value, ttl, now)
  IN
  /\ collection' = watching.coll
  /\ watchCall' = [kind |-> "call", op |-> "watch", id |-> id,
                   out |-> watching.out]
  /\ UNCHANGED <<pollVars, pushVars, sweep, schedVars>>

\* the application calls watches.create
CreateCall(id, watcher, expires) ==
  LET creating == Create(collection, id, watcher, expires, now)
  IN
  /\ collection' = creating.coll
  /\ watchCall' = [kind |-> "call", op |-> "create", id |-> id,
                   out |-> creating.out]
  /\ UNCHANGED <<pollVars, pushVars, sweep, schedVars>>

\* the application calls watches.get
GetCall(id) ==
  /\ watchCall' = [kind |-> "call", op |-> "get", id |-> id,
                   out |-> WatchesGet(collection, id)]
  /\ UNCHANGED <<pollVars, pushVars, collection, sweep, schedVars>>

\* the application calls watches.remove
RemoveCall(id) ==
  /\ collection' = Remove(collection, id)
  /\ watchCall' = [kind |-> "call", op |-> "remove", id |-> id,
                   out |-> undefined]
  /\ UNCHANGED <<pollVars, pushVars, sweep, schedVars>>

\* the application calls watches.mark for the record with this id
MarkCall(id) ==
  LET watcherLock == [id |-> Uuid, expires |-> Date(now + FIVE_SECONDS)]
      marking == Mark(collection, watcherLock, Str(id), 10, now)
  IN
  /\ collection' = marking.coll
  /\ watchCall' = [kind |-> "call", op |-> "mark", id |-> id,
                   out |-> marking.out]
  /\ UNCHANGED <<pollVars, pushVars, sweep, schedVars>>

\* the application calls watches.update with a watch it built from the
\* record it read, or from scratch when there is none
UpdateCall(id, sequence, value) ==
  LET watch == IF collection[id] # undefined
                 THEN [collection[id].watch EXCEPT !.sequence = sequence,
                                                   !.value = value]
                 ELSE [id |-> id, sequence |-> sequence,
                       watcher |-> "watchExchange", value |-> value,
                       expires |-> Date(now)]
      updating == Update(collection, watch, now)
  IN
  /\ collection' = updating.coll
  /\ watchCall' = [kind |-> "call", op |-> "update", id |-> id,
                   out |-> updating.out]
  /\ UNCHANGED <<pollVars, pushVars, sweep, schedVars>>

\* time passes between the steps of the sweeps
Tick(dt) ==
  /\ now + dt <= MaxTicks * FIVE_SECONDS
  /\ now' = now + dt
  /\ POLL_RESULT_CACHE' = Aged(POLL_RESULT_CACHE, dt)
  /\ POLL_CACHE' = Aged(POLL_CACHE, dt)
  /\ UNCHANGED <<origin, fetch, caller, ret, polls, advances>>
  /\ UNCHANGED <<pushVars, watchVars>>

\* the scheduler: every process sweeps the one store while the application
\* creates and removes watches and the exchanges change at the origin
NextWatch ==
  \/ \E p \in Sweepers : RunWatchers(p)
  \/ \E p \in Sweepers : FindMarked(p)
  \/ \E p \in Sweepers, id \in WatchIds, filter \in Filters :
       RunWatcher(p, id, filter)
  \/ \E p \in Sweepers, id \in WatchIds : UpdateRecord(p, id)
  \/ \E p \in Sweepers : Reschedule(p)
  \/ \E id \in WatchIds, value \in WatchValues, ttl \in Ttls :
       WatchCall(id, value, ttl)
  \/ \E id \in WatchIds : RemoveCall(id)
  \/ \E id \in WatchIds, s \in States : OriginUpdate(id, s)
  \/ \E dt \in WatchSteps : Tick(dt)

SpecWatch == Init /\ [][NextWatch]_vars

\* the scheduler at work on an application whose registered watcher
\* reports a state once (the filter of the example in watchers.js): the
\* timers fire, and the store and the origin answer every await
NextSweep ==
  \/ \E p \in Sweepers : RunWatchers(p)
  \/ \E p \in Sweepers : FindMarked(p)
  \/ \E p \in Sweepers, id \in WatchIds : RunWatcher(p, id, "dedup")
  \/ \E p \in Sweepers, id \in WatchIds : UpdateRecord(p, id)
  \/ \E p \in Sweepers : Reschedule(p)
  \/ \E id \in WatchIds, value \in WatchValues : WatchCall(id, value, 300)
  \/ \E id \in WatchIds : RemoveCall(id)
  \/ \E id \in WatchIds, s \in States : OriginUpdate(id, s)
  \/ \E dt \in WatchSteps : Tick(dt)

SweepsRun ==
  \A p \in Sweepers :
    /\ WF_vars(RunWatchers(p))
    /\ WF_vars(FindMarked(p))
    /\ WF_vars(\E id \in WatchIds : RunWatcher(p, id, "dedup"))
    /\ WF_vars(\E id \in WatchIds : UpdateRecord(p, id))
    /\ WF_vars(Reschedule(p))

SpecSweep == Init /\ [][NextSweep]_vars /\ SweepsRun

\* the store under any caller: the application creates, removes and
\* updates records with any sequence while one process sweeps
NextStore ==
  \/ \E id \in WatchIds, value \in WatchValues, ttl \in AnyTtls :
       WatchCall(id, value, ttl)
  \/ \E id \in WatchIds, expires \in {undefined, Date(now + 300 * 1000)} :
       CreateCall(id, "watchExchange", expires)
  \/ \E id \in WatchIds : GetCall(id)
  \/ \E id \in WatchIds : RemoveCall(id)
  \/ \E id \in WatchIds, sequence \in 0..MaxSequence,
        value \in UpdateValues :
       UpdateCall(id, sequence, value)
  \/ \E p \in {1} : RunWatchers(p)
  \/ \E p \in {1} : FindMarked(p)
  \/ \E p \in {1}, id \in WatchIds, filter \in Filters :
       RunWatcher(p, id, filter)
  \/ \E p \in {1}, id \in WatchIds : UpdateRecord(p, id)
  \/ \E p \in {1} : Reschedule(p)
  \/ \E id \in WatchIds, s \in States : OriginUpdate(id, s)
  \/ \E dt \in WatchSteps : Tick(dt)

SpecStore == Init /\ [][NextStore]_vars

\* a store of more records than one mark's limit, swept by one process
\* while the application creates the watches one id after the other; the
\* watchers of a sweep answer in the order of their ids
InitMany ==
  /\ origin = [i \in ManyIds |-> "pending"]
  /\ POLL_CACHE = <<>>
  /\ POLL_RESULT_CACHE = <<>>
  /\ fetch = [c \in Callers |-> NoFetch]
  /\ caller = [c \in Callers |-> Idle]
  /\ ret = NoCall
  /\ polls = 0
  /\ advances = 0
  /\ now = 0
  /\ tokenCall = NoCall
  /\ verifyCall = NoCall
  /\ callback = [i \in ManyIds |-> undefined]
  /\ request = NoRequest
  /\ response = NoResponse
  /\ keyLoad = Started
  /\ collection = [i \in ManyIds |-> undefined]
  /\ sweep = [p \in Sweepers |-> Scheduled(0)]
  /\ watchCall = NoCall
  /\ process = [p \in Sweepers |-> p]
  /\ TEST_RESCHEDULE_TIME_HOOK = [pr \in Sweepers |-> undefined]
  /\ runWatchersTimerId = [pr \in Sweepers |-> null]
  /\ exiting = [pr \in Sweepers |-> FALSE]
  /\ detached = {}

NextMany ==
  \/ \E id \in ManyIds :
       /\ \A earlier \in 1..(id - 1) : collection[earlier] # undefined
       /\ collection[id] = undefined
       /\ WatchCall(id, null, 300)
  \/ RunWatchers(1)
  \/ FindMarked(1)
  \/ \E id \in ManyIds :
       /\ sweep[1].st = "running"
       /\ \A earlier \in 1..(id - 1) :
            sweep[1].jobs[earlier].st \in {"none", "done"}
       /\ RunWatcher(1, id, "dedup")
  \/ \E id \in ManyIds :
       /\ sweep[1].st = "running"
       /\ \A earlier \in 1..(id - 1) :
            sweep[1].jobs[earlier].st \in {"none", "done"}
       /\ UpdateRecord(1, id)
  \/ Reschedule(1)

SpecMany == InitMany /\ [][NextMany]_vars

\* one process sweeping a store of some records while every step of a
\* sweep may fail: the database on mark and on find, the watcher of a
\* record, the last record by naming a watcher nobody registered, an
\* update by finding its record removed
InitFaulty ==
  /\ origin = [i \in Ids |-> "pending"]
  /\ POLL_CACHE = <<>>
  /\ POLL_RESULT_CACHE = <<>>
  /\ fetch = [c \in Callers |-> NoFetch]
  /\ caller = [c \in Callers |-> Idle]
  /\ ret = NoCall
  /\ polls = 0
  /\ advances = 0
  /\ now = 0
  /\ tokenCall = NoCall
  /\ verifyCall = NoCall
  /\ callback = [i \in Ids |-> undefined]
  /\ request = NoRequest
  /\ response = NoResponse
  /\ keyLoad = Started
  /\ collection = [i \in Ids |-> undefined]
  /\ sweep = [p \in Sweepers |-> Scheduled(0)]
  /\ watchCall = NoCall
  /\ process = [p \in Sweepers |-> p]
  /\ TEST_RESCHEDULE_TIME_HOOK = [pr \in Sweepers |-> undefined]
  /\ runWatchersTimerId = [pr \in Sweepers |-> null]
  /\ exiting = [pr \in Sweepers |-> FALSE]
  /\ detached = {}

NextFaulty ==
  \/ RunWatchers(1)
  \/ MarkFails(1)
  \/ FindMarked(1)
  \/ FindFails(1)
  \/ \E id \in Ids : RunWatcher(1, id, "dedup")
  \/ \E id \in Ids : WatcherThrows(1, id)
  \/ \E id \in Ids : UpdateRecord(1, id)
  \/ Reschedule(1)
  \/ \E d \in detached : DetachedRunWatcher(d, "dedup")
  \/ \E d \in detached : DetachedThrows(d)
  \/ \E d \in detached : DetachedUpdate(d)
  \/ \E id \in Ids \ {NIds}, value \in WatchValues :
       WatchCall(id, value, 300)
  \/ CreateCall(NIds, "unregistered", Date(now + 300 * 1000))
  \/ \E id \in Ids : RemoveCall(id)

\* the timer of a loop fires and the database answers, whichever way; the
\* calls a sweep awaits settle
SweepsRunFaulty ==
  /\ WF_vars(RunWatchers(1) \/ MarkFails(1))
  /\ WF_vars(FindMarked(1) \/ FindFails(1))
  /\ WF_vars(\E id \in Ids : RunWatcher(1, id, "dedup")
                                   \/ WatcherThrows(1, id))
  /\ WF_vars(\E id \in Ids : UpdateRecord(1, id))
  /\ WF_vars(Reschedule(1))

SpecFaulty == InitFaulty /\ [][NextFaulty]_vars /\ SweepsRunFaulty

\* one process: its loop started by bedrock.started, the places of the
\* loops that _setRescheduleTimeHook may start, and its shutdown
InitProcess ==
  /\ origin = [i \in Ids |-> "pending"]
  /\ POLL_CACHE = <<>>
  /\ POLL_RESULT_CACHE = <<>>
  /\ fetch = [c \in Callers |-> NoFetch]
  /\ caller = [c \in Callers |-> Idle]
  /\ ret = NoCall
  /\ polls = 0
  /\ advances = 0
  /\ now = 0
  /\ tokenCall = NoCall
  /\ verifyCall = NoCall
  /\ callback = [i \in Ids |-> undefined]
  /\ request = NoRequest
  /\ response = NoResponse
  /\ keyLoad = Started
  /\ collection = [i \in WatchIds |-> undefined]
  /\ sweep = [p \in Sweepers |-> IF p = 1 THEN Scheduled(0) ELSE NoLoop]
  /\ watchCall = NoCall
  /\ process = [p \in Sweepers |-> 1]
  /\ TEST_RESCHEDULE_TIME_HOOK = [pr \in Sweepers |-> undefined]
  /\ runWatchersTimerId = [pr \in Sweepers |-> null]
  /\ exiting = [pr \in Sweepers |-> FALSE]
  /\ detached = {}

NextProcess ==
  \/ \E p \in Sweepers : RunWatchers(p)
  \/ \E p \in Sweepers : FindMarked(p)
  \/ \E p \in Sweepers, id \in WatchIds : RunWatcher(p, id, "dedup")
  \/ \E p \in Sweepers, id \in WatchIds : UpdateRecord(p, id)
  \/ \E p \in Sweepers : Reschedule(p)
  \/ SetRescheduleTimeHook(1, [kind |-> "function",
                               returns |-> HookRescheduleTime])
  \/ Exit(1)
  \/ \E id \in WatchIds, value \in WatchValues : WatchCall(id, value, 300)
  \/ \E id \in WatchIds : RemoveCall(id)
  \/ \E id \in WatchIds, s \in States : OriginUpdate(id, s)
  \/ \E dt \in WatchSteps : Tick(dt)

SpecProcess == InitProcess /\ [][NextProcess]_vars

\* a store of some records, leased by the sweeps of one process and, one
\* record at a time, by the application
NextMark ==
  \/ \E id \in Ids, value \in WatchValues : WatchCall(id, value, 300)
  \/ \E id \in Ids : MarkCall(id)
  \/ RunWatchers(1)
  \/ FindMarked(1)
  \/ \E id \in Ids : RunWatcher(1, id, "dedup")
  \/ \E id \in Ids : UpdateRecord(1, id)
  \/ Reschedule(1)
  \/ \E dt \in WatchSteps : Tick(dt)

SpecMark == InitFaulty /\ [][NextMark]_vars

\* ------------------------------------------------------------ properties
Active(c) == fetch[c].st \in {"polling", "read"}
ActiveFor(id) == {c \in Callers : Active(c) /\ fetch[c].id = id}
ActivePollers == {c \in Callers : Active(c)}
Live(id) == CachePeek(POLL_RESULT_CACHE, id)
InFlight(id) == CachePeek(POLL_CACHE, id)
SeenTerminal(call) == call.seen # undefined /\ ~call.seen.mutable
SeenMutable(call) == call.seen # undefined /\ call.seen.mutable

\* C1: for every id, at most one poller invocation is active at any moment,
\* whatever mix of useCache = true and useCache = false calls is interleaved
Thm_C1 == \A id \in Ids : Cardinality(ActiveFor(id)) <= 1

\* one caller with useCache = false is coalesced onto the active fetch that
\* another caller started for the same id
Wit_C1 ==
  \E c, d \in Callers :
    /\ c # d /\ Active(c)
    /\ caller[d].st = "awaiting" /\ caller[d].p = c
    /\ caller[d].id = fetch[c].id /\ ~caller[d].useCache

\* C2 as claimed: a caller that arrives while a fetch for its id is in
\* flight does not invoke its own poller and receives that fetch's result
\* (a call served from the result cache returns while the fetch it saw is
\* still held for its starter, so fetch[ret.flight.of] is that fetch)
CE_C2 ==
  (ret.kind = "call" /\ ret.flight # undefined) =>
    /\ ret.role \in {"joiner", "cached"}
    /\ (ret.role = "cached" /\ Settled(fetch[ret.flight.of])) =>
         ret.out = fetch[ret.flight.of].out

\* a caller that found a fetch in flight awaits that fetch's promise and has
\* started no fetch of its own
Coalesced ==
  \A c \in Callers :
    (caller[c].st = "awaiting" /\ caller[c].flight # undefined) =>
      /\ caller[c].p = caller[c].flight.of
      /\ caller[c].p # c /\ fetch[c].st = "none"
      /\ fetch[caller[c].p].st # "none"
      /\ fetch[caller[c].p].id = caller[c].id

\* a call that finds a fetch in flight and is not served from the result
\* cache joins the fetch: no poller is invoked, no fetch is started
Arrival ==
  \A c \in Callers, id \in Ids, useCache \in BOOLEAN :
    (/\ Poll(c, id, useCache)
     /\ InFlight(id) # undefined
     /\ (~useCache \/ Live(id) = undefined))
      => /\ caller'[c].st = "awaiting" /\ caller'[c].p = InFlight(id).of
         /\ polls' = polls /\ fetch' = fetch /\ ret' = ret

\* every caller that stops awaiting a fetch returns what the fetch settled
\* with, and a settled fetch keeps its outcome while anyone awaits it
Delivered ==
  /\ \A c \in Callers :
       (caller[c].st = "awaiting" /\ caller'[c].st = "idle") =>
         /\ Settled(fetch[caller[c].p])
         /\ ret'.kind = "call" /\ ret'.id = caller[c].id
         /\ ret'.out = fetch[caller[c].p].out
  /\ \A c \in Callers :
       (Settled(fetch[c]) /\ fetch'[c].st # "none") => fetch'[c] = fetch[c]

\* C2 amended: a caller that arrives while a fetch for its id is in flight
\* and is not served from the result cache awaits that fetch's promise, does
\* not invoke its own poller, and receives the fetch's outcome, the same
\* PollResult as every other caller coalesced onto it
Thm_C2 == []Coalesced /\ [][Arrival]_vars /\ [][Delivered]_vars

\* a coalesced caller has received a PollResult that the fetch's starter is
\* still to receive
Wit_C2 ==
  /\ ret.kind = "call" /\ ret.role = "joiner" /\ ret.out.kind = "result"
  /\ Awaited(ret.flight.of, caller)
  /\ fetch[ret.flight.of].out = ret.out

\* C3: once the result cache holds a live result with mutable = false for an
\* id, no step replaces it by a live result with mutable = true
Thm_C3 ==
  [][\A id \in Ids :
       (Live(id) # undefined /\ ~Live(id).mutable /\ Live(id)' # undefined)
         => ~Live(id)'.mutable]_vars

\* a fresh poll (useCache = false) has returned the live terminal result of
\* an exchange that is pending again at the origin
Wit_C3 ==
  /\ ret.kind = "call" /\ ~ret.useCache /\ ret.role = "starter"
  /\ ret.out.kind = "result" /\ ~ret.out.mutable
  /\ origin[ret.id] = "pending" /\ Live(ret.id) = ret.out

\* C4 as claimed: the sequence number of the result a poll returns is never
\* lower than that of the result the previous poll for the same id returned
CE_C4 ==
  [][(/\ ret.kind = "call" /\ ret'.kind = "call" /\ ret'.id = ret.id
      /\ ret.out.kind = "result" /\ ret'.out.kind = "result")
       => ret'.out.sequence >= ret.out.sequence]_vars

\* poll(): with the in-flight cache full, a call for an id that has no
\* in-flight entry and no live cached result is refused before any poller
\* runs
QuotaStep ==
  \A c \in Callers, id \in Ids, useCache \in BOOLEAN :
    (/\ Poll(c, id, useCache)
     /\ Len(POLL_CACHE) = PollMax
     /\ InFlight(id) = undefined /\ Live(id) = undefined)
      => /\ ret'.kind = "call" /\ ret'.id = id /\ ret'.role = "refused"
         /\ ret'.out = Error("QuotaExceededError")
         /\ polls' = polls /\ fetch' = fetch /\ POLL_CACHE' = POLL_CACHE

\* C5: a poll that would add an in-flight entry to a full in-flight cache
\* fails with QuotaExceededError without invoking its poller, and the number
\* of active poller invocations never exceeds caches.poll.max
Thm_C5 ==
  /\ [](Cardinality(ActivePollers) <= PollMax)
  /\ [](Len(POLL_CACHE) <= PollMax)
  /\ [][QuotaStep]_vars

\* a call was refused while another id's poller was running
Wit_C5 ==
  /\ ret.kind = "call" /\ ret.role = "refused"
  /\ ret.out = Error("QuotaExceededError")
  /\ \E c \in Callers : Active(c) /\ fetch[c].id # ret.id
  /\ Cardinality(ActivePollers) = PollMax

\* the in-flight cache only holds promises whose starter is still waiting:
\* the entry is gone once the starter has resumed from a settled fetch
InFlightPending ==
  \A id \in Ids :
    InFlight(id) # undefined =>
      LET c == InFlight(id).of IN
        /\ caller[c].st = "awaiting" /\ caller[c].p = c
        /\ fetch[c].st # "none" /\ fetch[c].id = id

\* a caller coalesced onto a fetch that threw returns the error
JoinerOutcome ==
  \A c \in Callers :
    (/\ caller[c].st = "awaiting" /\ caller[c].p # c
     /\ fetch[caller[c].p].st = "err" /\ caller'[c].st = "idle")
      => /\ ret'.role = "joiner" /\ ret'.id = caller[c].id
         /\ ret'.out.kind = "error"
         /\ ret'.out = fetch[caller[c].p].out

\* with no in-flight entry and room in the in-flight cache, a call that
\* misses the result cache invokes its poller
MissStartsPoller ==
  \A c \in Callers, id \in Ids, useCache \in BOOLEAN :
    (/\ Poll(c, id, useCache)
     /\ InFlight(id) = undefined /\ Len(POLL_CACHE) < PollMax
     /\ (Live(id) = undefined \/ (~useCache /\ Live(id).mutable)))
      => /\ polls' = polls + 1
         /\ fetch'[c].st = "polling" /\ fetch'[c].id = id
         /\ InFlight(id)' = Promise(c)

\* C6: when a poller invocation settles, by returning or by throwing, the
\* in-flight entry of its id is removed, a later poll that misses the result
\* cache starts a new invocation, and a thrown error reaches every caller
\* coalesced onto the fetch
Thm_C6 ==
  /\ []InFlightPending
  /\ [][JoinerOutcome]_vars
  /\ [][\A c \in Callers :
          Dispose(c) =>
            CachePeek(POLL_CACHE', fetch[c].id) = undefined]_vars
  /\ [][MissStartsPoller]_vars

\* a coalesced caller received the poller's error and the in-flight entry of
\* the id is gone
Wit_C6 ==
  /\ ret.kind = "call" /\ ret.role = "joiner"
  /\ ret.out = Error("OperationError")
  /\ InFlight(ret.id) = undefined

CE_C8 ==
  (ret.kind = "call" /\ SeenTerminal(ret)) => ret.out = ret.seen

\* C8 amended: a poll made while a terminal result is live for its id does
\* not invoke the poller, and returns that result unless it has
\* useCache = false and is refused because the in-flight cache is full
Thm_C8 ==
  /\ [](ret.kind = "call" /\ SeenTerminal(ret) =>
          \/ ret.out = ret.seen
          \/ /\ ~ret.useCache /\ ret.role = "refused"
             /\ ret.out = Error("QuotaExceededError"))
  /\ [](\A c \in Callers :
          (caller[c].st = "awaiting" /\ SeenTerminal(caller[c])
             /\ caller[c].p = c) => ~fetch[c].invoked)
  /\ [][\A c \in Callers, id \in Ids, useCache \in BOOLEAN :
          (Poll(c, id, useCache) /\ Live(id) # undefined
             /\ ~Live(id).mutable) => polls' = polls]_vars

\* a call with useCache = false got the stored terminal result back from a
\* fetch that ran no poller, although the origin is pending again
Wit_C8 ==
  /\ ret.kind = "call" /\ ~ret.useCache /\ SeenTerminal(ret)
  /\ ret.role = "starter" /\ ret.got = "none" /\ ret.out = ret.seen
  /\ ret.out.value.state = "complete" /\ origin[ret.id] = "pending"

\* C9 as claimed: while a mutable result is live, useCache = true returns
\* it and useCache = false invokes the poller and returns the origin's state
CE_C9 ==
  (ret.kind = "call" /\ SeenMutable(ret)) =>
    IF ret.useCache THEN ret.out = ret.seen
    ELSE /\ ret.role = "starter"
         /\ ret.out.kind = "result" =>
              ret.got \in States /\ ret.out.value.state = ret.got

\* C9 amended: while a mutable result is live, useCache = true returns it;
\* useCache = false, with no fetch in flight for the id and room in the
\* in-flight cache, invokes the poller and returns the state it read
Thm_C9 ==
  (ret.kind = "call" /\ SeenMutable(ret)) =>
    /\ ret.useCache => (ret.role = "cached" /\ ret.out = ret.seen)
    /\ (~ret.useCache /\ ret.flight = undefined /\ ret.role # "refused") =>
         /\ ret.role = "starter"
         /\ ret.out.kind = "result" =>
              /\ ret.got \in States
              /\ ret.out.value.state = ret.got
              /\ ret.out.mutable = (ret.got # "complete")

\* with a pending result live, a call with useCache = false returned the
\* completed exchange
Wit_C9 ==
  /\ ret.kind = "call" /\ ~ret.useCache /\ SeenMutable(ret)
  /\ ret.seen.value.state = "pending" /\ ret.role = "starter"
  /\ ret.out.kind = "result" /\ ret.out.value.state = "complete"
  /\ ret.out.sequence = ret.seen.sequence + 1

\* C10 as claimed: createPushToken({event: 'exchangeUpdated'}) without
\* `expires` yields a token; when the origin posts to the callback URL built
\* from it the push route verifies the token, polls with useCache = false
\* and answers 204, and the result cache then holds the completed exchange
CE_C10 ==
  (tokenCall.kind = "call" /\ tokenCall.expires = undefined) =>
    /\ tokenCall.out.kind = "ok"
    /\ response.status # 0 => response.status = 204
    /\ response.status = 204 =>
         /\ Live(response.id) # undefined
         /\ Live(response.id).value.state = "complete"

\* C11 as claimed: verifying the token createPushToken({event: e, expires:
\* t}) returned, with expectedEvent e, succeeds with {event: e, expires: t}
\* exactly when the time of the call is at most t plus the clock skew
CE_C11 ==
  (/\ verifyCall.kind = "call" /\ verifyCall.how = "asIs"
   /\ verifyCall.expectedEvent = tokenCall.event) =>
    ((/\ verifyCall.out.kind = "ok"
      /\ verifyCall.out.event = tokenCall.event
      /\ verifyCall.out.expires = tokenCall.expires.time)
      <=> verifyCall.at <= tokenCall.expires.time + MAX_CLOCK_SKEW)

\* C12: verifyPushToken accepts no token whose presented signature is not
\* the HMAC of its presented payload under the process key
Thm_C12 ==
  (verifyCall.kind = "call" /\ ~ValidlySigned(verifyCall.pushToken)) =>
    verifyCall.out.kind = "error"

\* a token carrying another key's signature was presented and rejected
Wit_C12 ==
  /\ verifyCall.kind = "call" /\ verifyCall.how = "badSignature"
  /\ verifyCall.expectedEvent = tokenCall.event
  /\ verifyCall.at <= tokenCall.expires.time
  /\ verifyCall.out.kind = "error"

\* C13 as claimed: with expectedEvent omitted a validly signed, unexpired
\* token is accepted whatever its event; with expectedEvent supplied a
\* token for another event is rejected
CE_C13 ==
  (verifyCall.kind = "call" /\ verifyCall.how = "asIs") =>
    /\ (/\ verifyCall.expectedEvent = undefined
        /\ verifyCall.at <= tokenCall.expires.time + MAX_CLOCK_SKEW)
         => verifyCall.out.kind = "ok"
    /\ (/\ verifyCall.expectedEvent # undefined
        /\ verifyCall.expectedEvent # tokenCall.event)
         => verifyCall.out.kind = "error"

\* what a caller sees of a verification failure
Surface(error) ==
  <<error.name, error.message, error.httpStatusCode>>

\* C14: every failure of verifyPushToken on a token string surfaces as the
\* one outer error with status 400, so failures for different reasons do
\* not differ in the outer error's name, message or status
Thm_C14 ==
  /\ [](verifyCall.kind = "call" /\ verifyCall.out.kind = "error" =>
          Surface(verifyCall.out)
            = <<"OperationError", "Invalid push token.", 400>>)
  /\ [][(/\ verifyCall.kind = "call" /\ verifyCall.out.kind = "error"
         /\ verifyCall'.out.kind = "error")
          => Surface(verifyCall'.out) = Surface(verifyCall.out)]_vars

\* a token without a signature part failed on an internal exception, not on
\* the format or JSON error other tokens fail with
Wit_C14 ==
  /\ verifyCall.kind = "call" /\ verifyCall.how = "noDot"
  /\ verifyCall.out.kind = "error" /\ verifyCall.out.cause = "TypeError"
  /\ response.status = 400

\* C15: the middleware lets the request through to the handler (which
\* starts its poll) exactly when verifyPushToken succeeds for the request's
\* token and the route's event; otherwise nothing is polled and the answer
\* is 400
Thm_C15 ==
  [][\A c \in Callers :
       PushEvent(c) =>
         LET verified == VerifyPushToken(request.pushToken,
                                         Str("exchangeUpdated"), now)
         IN IF verified.kind = "error"
              THEN /\ response'.status = 400 /\ response'.id = request.id
                   /\ UNCHANGED pollVars
              ELSE caller'[c] # caller[c] \/ ret' # ret]_vars

\* a request with a tampered token was answered 400 and nothing was polled
Wit_C15 ==
  /\ response.status = 400 /\ request = NoRequest
  /\ polls = 0 /\ ret = NoCall
  /\ \A c \in Callers : caller[c].st = "idle"

\* ------------------------------------------------- properties, watches
Stored(id) == collection[id] # undefined

\* C16: watches.update succeeds only when the stored record of watch.id
\* has sequence watch.sequence - 1, and then the stored sequence is the
\* previous one plus 1; otherwise it fails with InvalidStateError and the
\* stored record is unchanged. Whatever operation runs (an update by the
\* application or by a sweep, a mark, a create), a record that stays in
\* the store keeps its sequence or moves it up by exactly 1.
Thm_C16 ==
  [][/\ \A id \in WatchIds :
          Stored(id) /\ collection'[id] # undefined
            => collection'[id].watch.sequence
                 \in {collection[id].watch.sequence,
                      collection[id].watch.sequence + 1}
     /\ \A id \in WatchIds, sequence \in 0..MaxSequence,
           value \in UpdateValues :
          UpdateCall(id, sequence, value) =>
            IF Stored(id) /\ collection[id].watch.sequence = sequence - 1
              THEN /\ watchCall'.out = Bool(TRUE)
                   /\ collection'[id].watch.sequence
                        = collection[id].watch.sequence + 1
                   /\ collection'[id].watch.value = value
              ELSE /\ watchCall'.out.kind = "error"
                   /\ watchCall'.out.name = "InvalidStateError"
                   /\ watchCall'.out.expected = sequence - 1
                   /\ UNCHANGED collection
     /\ \A p \in Sweepers, id \in WatchIds :
          UpdateRecord(p, id) =>
            LET read == sweep[p].jobs[id].record.watch.sequence
            IN IF Stored(id) /\ collection[id].watch.sequence = read
                 THEN /\ sweep'[p].jobs[id].logged = undefined
                      /\ collection'[id].watch.sequence = read + 1
                 ELSE /\ sweep'[p].jobs[id].logged # undefined
                      /\ sweep'[p].jobs[id].logged.name = "InvalidStateError"
                      /\ UNCHANGED collection]_vars

\* the application's update took the record to sequence 2 while a sweep
\* that had read it earlier had its own update refused
Wit_C16 ==
  /\ watchCall.kind = "call" /\ watchCall.op = "update"
  /\ watchCall.out = Bool(TRUE)
  /\ Stored(1) /\ collection[1].watch.sequence = 2
  /\ \E p \in Sweepers :
       /\ sweep[p].st = "running" /\ sweep[p].jobs[1].st = "done"
       /\ sweep[p].jobs[1].logged # undefined

\* sweep p ran _updateWatchRecord for the record it read at sequence s
Updating(p, id, s) ==
  /\ sweep[p].st = "running" /\ sweep[p].jobs[id].st = "update"
  /\ sweep[p].jobs[id].record.watch.sequence = s
Updated(p, id, s) ==
  /\ sweep[p].st = "running" /\ sweep[p].jobs[id].st = "done"
  /\ sweep[p].jobs[id].value # undefined
  /\ sweep[p].jobs[id].read = s
Won(p, id, s) == Updated(p, id, s) /\ sweep[p].jobs[id].logged = undefined

\* C17: two sweeps have read the same record at sequence s and both call
\* update with s + 1. The one whose update runs first succeeds and the
\* record gets sequence s + 1 and its value; the update of the other then
\* fails with InvalidStateError, which is logged and not rethrown (the
\* sweep carries on), and the record keeps s + 1 and the winner's value.
Thm_C17 ==
  [][\A p \in Sweepers, q \in Sweepers, id \in WatchIds,
        s \in 0..MaxSequence :
       p # q =>
       /\ ( /\ Updating(p, id, s) /\ Updating(q, id, s)
            /\ Stored(id) /\ collection[id].watch.sequence = s
            /\ UpdateRecord(q, id) )
            => /\ Won(q, id, s)'
               /\ Updating(p, id, s)'
               /\ collection'[id].watch.sequence = s + 1
               /\ collection'[id].watch.value = sweep[q].jobs[id].value
       /\ ( /\ Won(p, id, s) /\ Updating(q, id, s)
            /\ Stored(id) /\ collection[id].watch.sequence = s + 1
            /\ UpdateRecord(q, id) )
            => /\ Updated(q, id, s)'
               /\ sweep'[q].jobs[id].logged # undefined
               /\ sweep'[q].jobs[id].logged.name = "InvalidStateError"
               /\ UNCHANGED collection
               /\ collection[id].watch.value = sweep[p].jobs[id].value]_vars

\* both sweeps read the record at the same sequence and updated: one won,
\* the other logged its conflict, the record is one step further and holds
\* the winner's value, which is not the loser's
Wit_C17 ==
  \E p \in Sweepers, q \in Sweepers, s \in 0..MaxSequence :
    /\ p # q
    /\ Won(p, 1, s) /\ Updated(q, 1, s)
    /\ sweep[q].jobs[1].logged # undefined
    /\ Stored(1) /\ collection[1].watch.sequence = s + 1
    /\ collection[1].watch.value = sweep[p].jobs[1].value
    /\ sweep[q].jobs[1].value # sweep[p].jobs[1].value

\* the record carries a lease that has not expired
Leased(id) ==
  /\ Stored(id) /\ collection[id].meta.watcherLock # undefined
  /\ collection[id].meta.watcherLock.expires.time > now
\* sweep p is between finding the record and its watcher's update
Running(p, id) ==
  sweep[p].st = "running" /\ sweep[p].jobs[id].st \in {"found", "update"}
HoldsLease(p) ==
  sweep[p].st # "scheduled" /\ sweep[p].watcherLock.expires.time > now

\* C18: a sweep's mark (without id) leaves the lease of a record alone
\* while that lease, set by another sweep, has not expired; and no two
\* sweeps whose leases are both unexpired run the watcher of one record at
\* the same time
MarkRespectsLease ==
  \A p \in Sweepers, id \in WatchIds :
    RunWatchers(p) /\ Leased(id)
      => collection'[id].meta.watcherLock = collection[id].meta.watcherLock
OneRunner ==
  \A p \in Sweepers, q \in Sweepers, id \in WatchIds :
    (p # q /\ Running(p, id) /\ Running(q, id))
      => ~(HoldsLease(p) /\ HoldsLease(q))
CE_C18 == []OneRunner /\ [][MarkRespectsLease]_vars

\* the record's lease has run out
Expired(id) ==
  /\ Stored(id) /\ collection[id].meta.watcherLock # undefined
  /\ collection[id].meta.watcherLock.expires.time <= now
\* a sweep holds the record under a lease of its own that has not run out
\* and its watcher has answered
Served(id) ==
  \E p \in Sweepers :
    /\ Leased(id) /\ sweep[p].st = "running"
    /\ collection[id].meta.watcherLock = sweep[p].watcherLock
    /\ sweep[p].jobs[id].st \in {"update", "done"}

\* C19: while sweeps keep running, a record whose lease has expired is,
\* unless it is removed, leased again by a later sweep's mark, which runs
\* its watcher
CE_C19 == \A id \in WatchIds : Expired(id) ~> (~Stored(id) \/ Served(id))

\* obj.field of a JS object: undefined when the object has no such field
Get(obj, field) == IF field \in DOMAIN obj THEN obj[field] ELSE undefined

\* the stored record shows the exchange complete and no longer mutable
ShowsComplete(id) ==
  /\ Stored(id)
  /\ collection[id].watch.value # null
  /\ collection[id].watch.value.state = "complete"
  /\ Get(collection[id].watch, "mutable") = Bool(FALSE)

\* C20: with the exchange watched by a registered watcher and sweeps
\* running, once the exchange is complete at the origin the stored record
\* eventually has watch.value.state = 'complete' and watch.mutable = false
\* (unless the watch is removed or the exchange leaves that state first)
CE_C20 ==
  \A id \in WatchIds :
    (Stored(id) /\ origin[id] = "complete")
      ~> (ShowsComplete(id) \/ ~Stored(id) \/ origin[id] # "complete")

\* C30 as claimed: createPushToken called without `expires` succeeds, and
\* the expiry encoded in its token is 20 minutes after the time of the call
CE_C30 ==
  [][\A event \in Events :
       CreateTokenFor(event, undefined) =>
         /\ tokenCall'.out.kind = "ok"
         /\ tokenCall'.out.token[1].body.of.of[2] = now + TWENTY_MINUTES]_vars

\* C25: watchers.watch with a ttl above 3600 seconds fails with
\* ConstraintError and creates no record; a record that watch creates
\* expires ttl seconds, so at most one hour, after the call
Thm_C25 ==
  [][\A id \in WatchIds, value \in WatchValues, ttl \in AnyTtls :
       WatchCall(id, value, ttl) =>
         IF ttl > ONE_HOUR_IN_SECONDS
           THEN /\ watchCall'.out.kind = "error"
                /\ watchCall'.out.name = "ConstraintError"
                /\ UNCHANGED collection
           ELSE \/ /\ watchCall'.out = DuplicateError
                   /\ UNCHANGED collection
                \/ /\ watchCall'.out = undefined
                   /\ ~Stored(id) /\ collection'[id] # undefined
                   /\ collection'[id].watch.expires.time = now + ttl * 1000
                   /\ collection'[id].watch.expires.time
                        <= now + ONE_HOUR_IN_SECONDS * 1000]_vars

\* a watch of exactly one hour is stored, one of a second more was refused
Wit_C25 ==
  /\ watchCall.kind = "call" /\ watchCall.op = "watch"
  /\ watchCall.out = ConstraintError
  /\ Stored(1)
  /\ collection[1].watch.expires.time = ONE_HOUR_IN_SECONDS * 1000

\* C26: watches.create inserts a record with sequence 0 and value null;
\* for an id that has a record it fails with DuplicateError and the record
\* (sequence, value, watcher, expires, lease) stays as it was
Thm_C26 ==
  [][\A id \in WatchIds, expires \in {Date(now + 300 * 1000)} :
       CreateCall(id, "watchExchange", expires) =>
         IF Stored(id)
           THEN /\ watchCall'.out = DuplicateError
                /\ UNCHANGED collection
           ELSE /\ watchCall'.out.kind = "record"
                /\ collection'[id] # undefined
                /\ collection'[id].watch
                     = [id |-> id, sequence |-> 0,
                        watcher |-> "watchExchange", value |-> null,
                        expires |-> expires]
                /\ collection'[id].meta.watcherLock = undefined
                /\ watchCall'.out.watch = collection'[id].watch
                /\ \A other \in WatchIds \ {id} :
                     collection'[other] = collection[other]]_vars

\* a create was refused for an id whose record has been updated and leased
Wit_C26 ==
  /\ watchCall.kind = "call" /\ watchCall.op = "create"
  /\ watchCall.out = DuplicateError
  /\ Stored(1) /\ collection[1].watch.sequence = 1
  /\ collection[1].watch.value # null
  /\ collection[1].meta.watcherLock # undefined

\* C27: a record created for a fresh id and then removed leaves the store
\* as it was before; removing an id without a record succeeds and changes
\* nothing; after a remove, get of that id fails with NotFoundError
Thm_C27 ==
  [][/\ \A id \in WatchIds :
          RemoveCall(id) =>
            /\ watchCall'.out = undefined
            /\ collection'[id] = undefined
            /\ \A other \in WatchIds \ {id} :
                 collection'[other] = collection[other]
            /\ ~Stored(id) => UNCHANGED collection
            /\ WatchesGet(collection', id) = NotFoundError
     /\ \A id \in WatchIds, value \in WatchValues, ttl \in AnyTtls :
          (WatchCall(id, value, ttl) /\ ~Stored(id))
            => Remove(collection', id) = collection
     /\ \A id \in WatchIds :
          (GetCall(id) /\ ~Stored(id)) => watchCall'.out = NotFoundError]_vars

\* a record that a sweep had found was removed, and the get after that
\* failed
Wit_C27 ==
  /\ watchCall.kind = "call" /\ watchCall.op = "get"
  /\ watchCall.out = NotFoundError
  /\ \E p \in Sweepers :
       sweep[p].st = "running" /\ sweep[p].jobs[1].st = "found"

\* the records a sweep's mark is about to lease
Eligible == MarkQuery(collection, undefined, now)

\* C22 as claimed: a sweep whose mark leased no record schedules the next
\* sweep after twice the previous delay, counted from the 1 s baseline, so
\* k empty sweeps in a row end at 2^k seconds
CE_C22 ==
  [][\A p \in Sweepers :
       (RunWatchers(p) /\ Eligible = {}) =>
         sweep'[p].rescheduleTime
           = 2 * (IF sweep[p].delay < ONE_SECOND THEN ONE_SECOND
                  ELSE sweep[p].delay)]_vars

\* C23 as claimed: the mark of a sweep answers with the number of records
\* it modified, and a sweep whose mark leased exactly 10 records schedules
\* the next sweep after 0 ms
CE_C23 ==
  [][\A p \in Sweepers :
       (RunWatchers(p) /\ Cardinality(Eligible) = 10) =>
         LET answer == Mark(collection, [id |-> Uuid,
                                         expires |-> Date(now + FIVE_SECONDS)],
                            undefined, 10, now).out
         IN /\ answer.kind = "number"
            /\ sweep'[p].rescheduleTime = 0]_vars

\* C24 as claimed: one mark without id leases at most 10 records, and one
\* sweep runs at most 10 watchers
CE_C24 ==
  [][\A p \in Sweepers :
       /\ RunWatchers(p) =>
            Cardinality({i \in DOMAIN collection :
                           /\ collection'[i] # undefined
                           /\ collection'[i].meta.watcherLock # undefined
                           /\ collection'[i].meta.watcherLock.id
                                = sweep'[p].watcherLock.id}) <= 10
       /\ FindMarked(p) =>
            Cardinality({i \in DOMAIN collection :
                           sweep'[p].jobs[i].st = "found"}) <= 10]_vars

\* loop p is in the middle of a tick
InTick(p) == sweep[p].st \in {"marked", "running"}
\* a tick of loop p begins: its timer fires and mark answers or fails
TickStarts(p) == RunWatchers(p) \/ MarkFails(p)

\* C21: whatever fails inside a sweep (mark, find, a watcher, a watcher
\* that is not registered, an update), the step that ends the tick leaves
\* the loop with its one next timer set, a failed update does not end the
\* tick, and ticks begin again and again
Thm_C21 ==
  /\ [][\A p \in Sweepers :
          /\ (sweep'[p] # sweep[p] /\ ~InTick(p)')
               => /\ sweep'[p].st = "scheduled"
                  /\ runWatchersTimerId'[process[p]] = Timeout(p)
          /\ \A id \in Ids :
               UpdateRecord(p, id)
                 => /\ sweep'[p].st = "running"
                    /\ sweep'[p].jobs[id].st = "done"]_vars
  /\ []<><<TickStarts(1)>>_vars

\* a sweep was ended by a record whose watcher is not registered while the
\* watcher of another record was still running, and its next timer is set
Wit_C21 ==
  /\ detached # {}
  /\ sweep[1].st = "scheduled"
  /\ runWatchersTimerId[1] = Timeout(1)
  /\ collection[NIds] # undefined
  /\ collection[NIds].watch.watcher \notin WATCHERS

\* the loops of process pr: a sweep under way or a timer pending
Loops(pr) == {p \in Sweepers : process[p] = pr /\ sweep[p] # NoLoop}

\* C28 as claimed: a process never has more than one scheduler loop, also
\* after _setRescheduleTimeHook was called in the middle of a sweep
CE_C28 == \A pr \in Sweepers : Cardinality(Loops(pr)) <= 1

\* C29 as claimed: once the process has been told to shut down, the sweep
\* under way finishes and no step sets a timer for a further sweep
CE_C29 ==
  [][\A p \in Sweepers :
       exiting[process[p]] =>
         ~(InTick(p) /\ sweep'[p].st = "scheduled")]_vars

\* C31: when the poller of a fetch returns, the result stored and returned
\* is the current result itself, sequence unchanged, if there is one and
\* the poller's value is identical to its value and the mutable flags are
\* equal; otherwise it is a new result whose sequence is the current
\* result's plus one, or 1 when there is no current result
Thm_C31 ==
  [][\A c \in Callers, filter \in Filters :
       PollerReturn(c, filter) =>
         LET current == fetch[c].cur
             returned == PollExchange(filter, current, fetch[c].got,
                                      fetch[c].n)
             result == fetch'[c].out
         IN /\ CachePeek(POLL_RESULT_CACHE', fetch[c].id) = result
            /\ IF /\ current # undefined
                  /\ returned.value = current.value
                  /\ returned.mutable = current.mutable
                 THEN result = current
                 ELSE /\ result.id = fetch[c].id
                      /\ result.value = returned.value
                      /\ result.mutable = returned.mutable
                      /\ result.sequence =
                           IF current = undefined THEN 1
                           ELSE current.sequence + 1]_vars

\* a call whose fetch found a result, polled, and returned that very
\* result at the sequence it had
Wit_C31 ==
  /\ ret.kind = "call" /\ ret.role = "starter"
  /\ ret.got # "none"
  /\ ret.seen # undefined
  /\ ret.out = ret.seen
  /\ ret.out.sequence = 1

\* C36 as claimed: what pollExchange returns has mutable = false exactly
\* when the exchange it read is complete or invalid, also on the first
\* poll of an id when filterExchange returns nothing
CE_C36 ==
  [][\A c \in Callers, filter \in AnyFilters :
       PollerReturn(c, filter) =>
         PollExchange(filter, fetch[c].cur, fetch[c].got, fetch[c].n).mutable
           = (fetch[c].got \notin {"complete", "invalid"})]_vars

\* the result cache's entry for an id
Entry(cache, id) == cache[IndexOf(cache, id)]

\* C37: the entry a fetch writes for its result is fresh and has TTL
\* MAX_TTL when the result has mutable = false and the default TTL when it
\* has mutable = true; a fetch that finds a live terminal result writes it
\* again with TTL MAX_TTL
Thm_C37 ==
  [][/\ \A c \in Callers, filter \in Filters :
          PollerReturn(c, filter) =>
            LET e == Entry(POLL_RESULT_CACHE', fetch[c].id)
            IN /\ IndexOf(POLL_RESULT_CACHE', fetch[c].id) # 0
               /\ e.val = fetch'[c].out
               /\ e.age = 0
               /\ e.ttl = IF e.val.mutable THEN PollResultTtl ELSE MAX_TTL
     /\ \A c \in Callers, id \in Ids, useCache \in BOOLEAN :
          (Poll(c, id, useCache) /\ fetch[c].st = "none"
                                 /\ fetch'[c].st = "ok") =>
            LET e == Entry(POLL_RESULT_CACHE', id)
            IN /\ IndexOf(POLL_RESULT_CACHE', id) # 0
               /\ e.val = fetch'[c].out
               /\ ~e.val.mutable
               /\ e.val = Live(id)
               /\ e.age = 0
               /\ e.ttl = MAX_TTL]_vars

\* time has passed since the start, and a fetch that found the terminal
\* result of its id has just written it again for MAX_TTL
Wit_C37 ==
  /\ now > 0
  /\ \E c \in Callers :
       /\ fetch[c].st = "ok" /\ ~fetch[c].invoked
       /\ IndexOf(POLL_RESULT_CACHE, fetch[c].id) # 0
       /\ Entry(POLL_RESULT_CACHE, fetch[c].id).val = fetch[c].out
       /\ Entry(POLL_RESULT_CACHE, fetch[c].id).age = 0
       /\ Entry(POLL_RESULT_CACHE, fetch[c].id).ttl = MAX_TTL

\* the entries a cache holds for the ids other than id
Others(cache, id) == {cache[i] : i \in {j \in 1..Len(cache) : cache[j].key # id}}

\* C40: a fetch whose poller throws leaves the result its id has in the
\* result cache as it was when the fetch began, and the entries of all
\* other ids in both caches as they are: at its start, when the poller
\* throws, and when the failed call returns
Thm_C40 ==
  [][\A c \in Callers :
       /\ \A id \in Ids, useCache \in BOOLEAN :
            (Poll(c, id, useCache) /\ fetch'[c].st = "polling") =>
              /\ Live(id)' = Live(id)
              /\ Others(POLL_RESULT_CACHE', id) = Others(POLL_RESULT_CACHE, id)
              /\ Others(POLL_CACHE', id) = Others(POLL_CACHE, id)
       /\ PollerThrow(c) =>
            /\ UNCHANGED <<POLL_RESULT_CACHE, POLL_CACHE>>
            /\ Live(fetch[c].id) = fetch[c].cur \/ Live(fetch[c].id) = undefined
       /\ (Dispose(c) /\ fetch[c].st = "err") =>
            /\ UNCHANGED POLL_RESULT_CACHE
            /\ Others(POLL_CACHE', fetch[c].id) = Others(POLL_CACHE, fetch[c].id)
            /\ ret'.out.kind = "error"
            /\ Live(fetch[c].id) = ret'.seen \/ Live(fetch[c].id) = undefined]_vars

\* a fresh poll of an id with a live result at sequence 1 has failed, and
\* the cache still holds that result
Wit_C40 ==
  /\ ret.kind = "call" /\ ret.role = "starter" /\ ret.out.kind = "error"
  /\ ret.out.name = "OperationError"
  /\ ret.seen # undefined
  /\ Live(ret.id) = ret.seen
  /\ Live(ret.id).sequence = 1

\* C32 as claimed: a successful update of a record that carries a lease
\* (the step that takes its sequence one further) leaves the record
\* without a lease
CE_C32 ==
  [][\A id \in WatchIds :
       ( /\ Stored(id) /\ collection[id].meta.watcherLock # undefined
         /\ collection'[id] # undefined
         /\ collection'[id].watch.sequence
              = collection[id].watch.sequence + 1 )
         => collection'[id].meta.watcherLock = undefined]_vars

\* the records that carry the lease of sweep p
LeasedBy(p) ==
  {i \in DOMAIN collection :
     /\ collection[i] # undefined
     /\ collection[i].meta.watcherLock # undefined
     /\ collection[i].meta.watcherLock.id = sweep[p].watcherLock.id}

\* C33 as claimed: when find answers with a record whose watcher is not
\* registered and with others whose watcher is, the sweep goes on: that
\* record gets no watcher call, and the watcher of every other record it
\* leased is awaited by the sweep
CE_C33 ==
  [][\A p \in Sweepers :
       ( /\ FindMarked(p)
         /\ \E i \in LeasedBy(p) :
              collection[i].watch.watcher \notin WATCHERS
         /\ \E i \in LeasedBy(p) :
              collection[i].watch.watcher \in WATCHERS )
         => /\ sweep'[p].st = "running"
            /\ \A i \in LeasedBy(p) :
                 sweep'[p].jobs[i].st =
                   IF collection[i].watch.watcher \in WATCHERS
                     THEN "found" ELSE "none"]_vars

\* C34: the answer of a watcher writes nothing by itself; when its value is
\* undefined the record's call is over and nothing is written for it, and
\* otherwise the sweep calls update with the watch it read, the sequence
\* one further and that value, which replaces the stored watch when the
\* stored sequence is still the one read
Thm_C34 ==
  [][\A p \in Sweepers, id \in WatchIds :
       /\ \A filter \in Filters :
            RunWatcher(p, id, filter) =>
              LET record == sweep[p].jobs[id].record
                  value == WatchExchange(filter, record, origin[id]).value
              IN /\ UNCHANGED collection
                 /\ IF value = undefined
                      THEN sweep'[p].jobs[id].st = "done"
                      ELSE /\ sweep'[p].jobs[id].st = "update"
                           /\ sweep'[p].jobs[id].record = record
                           /\ sweep'[p].jobs[id].value = value
       /\ UpdateRecord(p, id) =>
            LET job == sweep[p].jobs[id]
            IN /\ job.value # undefined
               /\ IF /\ Stored(id)
                     /\ collection[id].watch.sequence
                          = job.record.watch.sequence
                    THEN /\ collection'[id].watch
                              = [job.record.watch EXCEPT
                                   !.sequence = @ + 1, !.value = job.value]
                         /\ collection'[id].meta = collection[id].meta
                    ELSE UNCHANGED collection]_vars

\* the watcher of a record that an earlier sweep had updated answered with
\* no value, and the record is as that sweep read it
Wit_C34 ==
  \E p \in Sweepers :
    /\ sweep[p].st = "running"
    /\ sweep[p].jobs[1].st = "done"
    /\ sweep[p].jobs[1].value = undefined
    /\ sweep[p].jobs[1].read = 1
    /\ Stored(1) /\ collection[1].watch.sequence = 1
    /\ collection[1].watch.value = [state |-> "pending"]

\* C35: mark with an id sets the given lease on the record with that id,
\* whatever lease the record carries, and leaves every other record as it
\* is; without such a record it changes nothing and answers false
Thm_C35 ==
  [][\A id \in Ids :
       MarkCall(id) =>
         /\ \A other \in Ids \ {id} : collection'[other] = collection[other]
         /\ IF Stored(id)
              THEN /\ collection'[id].meta.watcherLock
                        = [id |-> Uuid, expires |-> Date(now + FIVE_SECONDS)]
                   /\ collection'[id].watch = collection[id].watch
                   /\ watchCall'.out = Bool(TRUE)
              ELSE /\ collection'[id] = undefined
                   /\ watchCall'.out = Bool(FALSE)]_vars

\* a sweep leased both records, its lease has not expired, and a mark with
\* the id of the first has replaced the lease of that record alone
Wit_C35 ==
  /\ watchCall.kind = "call" /\ watchCall.op = "mark" /\ watchCall.id = 1
  /\ watchCall.out = Bool(TRUE)
  /\ sweep[1].st = "running"
  /\ sweep[1].watcherLock.expires.time > now
  /\ sweep[1].jobs[1].st = "found" /\ sweep[1].jobs[NIds].st = "found"
  /\ collection[1].meta.watcherLock.id # sweep[1].watcherLock.id
  /\ collection[NIds].meta.watcherLock.id = sweep[1].watcherLock.id

\* C38 as claimed: the record a successful watchers.watch creates holds the
\* value the call was given as its watch.value
CE_C38 ==
  [][\A id \in WatchIds, value \in WatchValues, ttl \in AnyTtls :
       (WatchCall(id, value, ttl) /\ watchCall'.out = undefined)
         => collection'[id].watch.value = value]_vars


\* the key text of a configured key: its prefix is 'u', and the bytes it
\* was encoded from
PrefixU(hmacKey) ==
  /\ hmacKey.secretKeyMultibase # undefined
  /\ hmacKey.secretKeyMultibase.header = "u"
Bytes(hmacKey) == hmacKey.secretKeyMultibase.body.of
HeaderAes(hmacKey) ==
  /\ Len(Bytes(hmacKey)) >= 2
  /\ Bytes(hmacKey)[1] = 162
  /\ Bytes(hmacKey)[2] = 1
\* _loadHmacKey got as far as loading the key: a key with an id is set
LoadsKey ==
  /\ keyLoad.out # NoCall
  /\ keyLoad.hmacKey # null
  /\ keyLoad.hmacKey.id = Str("urn:test:hmacKey")

\* C39: loading the HMAC key at start-up ends in NotSupportedError when the
\* key text does not start with 'u' or its first two bytes are not 0xA2
\* 0x01, in DataError when those two bytes match and other than 32 bytes
\* follow them, and in the "disabled" log line when push.hmacKey is null;
\* HMAC_KEY stays undefined then and whenever an error was thrown.
Thm_C39 ==
  /\ LoadsKey /\ ~PrefixU(keyLoad.hmacKey)
       => keyLoad.out = Error("NotSupportedError")
  /\ LoadsKey /\ PrefixU(keyLoad.hmacKey) /\ ~HeaderAes(keyLoad.hmacKey)
       => keyLoad.out = Error("NotSupportedError")
  /\ LoadsKey /\ PrefixU(keyLoad.hmacKey) /\ HeaderAes(keyLoad.hmacKey)
       /\ Len(Bytes(keyLoad.hmacKey)) # 2 + 32
       => keyLoad.out = Error("DataError")
  /\ keyLoad.out # NoCall /\ keyLoad.hmacKey = null
       => /\ keyLoad.out = Info("Push notification is disabled.")
          /\ keyLoad.HMAC_KEY = undefined
  /\ keyLoad.out.kind = "error" => keyLoad.HMAC_KEY = undefined

\* a key with the AES-256 header and 31 key bytes was refused with a
\* DataError and nothing was installed
Wit_C39 ==
  /\ LoadsKey
  /\ PrefixU(keyLoad.hmacKey)
  /\ HeaderAes(keyLoad.hmacKey)
  /\ Len(Bytes(keyLoad.hmacKey)) = 2 + 31
  /\ keyLoad.out = Error("DataError")
  /\ keyLoad.HMAC_KEY = undefined

====
